---------------------------- MODULE Spec2Model ----------------------------
(***************************************************************************)
(* A model of libbvg: the Elias-Fano offsets index (src/src/eflist.c),     *)
(* the graph descriptor's load / close life cycle (src/src/bvgraph.c) and  *)
(* the sequential-versus-random comparison of the test driver              *)
(* (src/unnamed/part_001).                                                 *)
(*                                                                         *)
(* A 64-bit word is the set of its set bit numbers (0 = least significant  *)
(* bit), so that no width is lost to the checker's integers.  A word array *)
(* is its length in words and the map from word index to word of its       *)
(* non-zero words.                                                         *)
(***************************************************************************)
EXTENDS Integers, Sequences, FiniteSets, TLC

VARIABLES
    ef,     \* the elias_fano_list under test
    arr,    \* the caller's input array (the offsets to encode)
    pc,     \* position of the driver
    res,    \* result of the last query
    ub,     \* outcome the build gives to 1L << 64 (undefined in C)
    g,      \* the bvgraph descriptor
    heap,   \* the blocks malloc has returned, in order
    bufs,   \* the caller's buffers given to the last load
    files,  \* the number of FILE handles open
    env,    \* the files of the graph on disk
    ret,    \* the last bvgraph call and what it returned
    last,   \* the last bvgraph_load_external call
    bv,     \* the test driver: the graph file, the offsets, the two iterators
    call    \* the last one-shot library call and what it returned

efvars == <<ef, arr, pc, res, ub>>
ldvars == <<g, heap, bufs, files, env, ret, last>>
vars == <<ef, arr, pc, res, ub, g, heap, bufs, files, env, ret, last, bv, call>>

-----------------------------------------------------------------------------
(* 64-bit words *)

Bits64 == 0 .. 63

MaxSet(S) == CHOOSE x \in S : \A y \in S : y <= x

\* the two's complement bits of a small non-negative integer
ToBits(v) == {b \in 0 .. 30 : (v \div (2 ^ b)) % 2 = 1}

RECURSIVE FromBits(_)
\* the value of a word that fits the checker's integers
FromBits(x) == IF x = {} THEN 0
               ELSE LET b == MaxSet(x) IN 2 ^ b + FromBits(x \ {b})

Shl64(x, c) == {b + c : b \in {a \in x : a + c < 64}}
Shr64(x, c) == {b - c : b \in {a \in x : a >= c}}

\* a - b modulo 2^64
Sub64(a, b) ==
    LET diff      == (a \ b) \cup (b \ a)
        \* a borrow enters bit i iff the highest bit below i where a and b
        \* differ is a bit of b
        borrow(i) == LET D == {j \in diff : j < i}
                     IN  D # {} /\ MaxSet(D) \in b
    IN  {i \in Bits64 : (i \in diff) # borrow(i)}

\* the int64 v as a word, v of either sign
Int64(v) == IF v >= 0 THEN ToBits(v) ELSE Sub64({}, ToBits(-v))

\* 1L << c as the build computes it; c = 64 is undefined behaviour
ShlOne(c) == IF c < 64 THEN {c} ELSE ub

\* floor(log2(q)) for q >= 1, as (int)floor(log2(q)) gives it on exact doubles
FloorLog2(q) == MaxSet(ToBits(q))

\* x & mask for a mask of the form 2^k - 1
AndMask(x, mask) == x % (mask + 1)

-----------------------------------------------------------------------------
(* Error codes and constants of eflist.c *)

eflist_out_of_bound == -1
eflist_spill_too_small == -2
eflist_batch_nondecreasing == -3

MAX_ONES_PER_INVENTORY == 8192
MAX_SPAN == 65536
DEFAULT_SPILL_SIZE == 81920

\* contents of memory that malloc returned and nothing wrote yet
Uninit == "uninit"

-----------------------------------------------------------------------------
(* bit_array: [s, A, len, curr].  A maps a word index to the word there;  *)
(* a word of the len allocated ones that A does not map is still the zero  *)
(* that bit_array_create's memset stored.                                  *)

NoWords == [w \in {} |-> {}]

\* A[w] & mask; a word outside the array is no value of the model
WordAnd(ptr, w, mask) ==
    [x \in 0 .. ptr.len - 1 |-> IF x \in DOMAIN ptr.A THEN ptr.A[x] \cap mask ELSE {}][w]

\* A[w]
Word(ptr, w) == WordAnd(ptr, w, Bits64)

\* A[w] |= x
OrWord(ptr, w, x) ==
    LET y == [z \in 0 .. ptr.len - 1 |-> z][w]
    IN  IF y >= 0 /\ x = {} THEN ptr
        ELSE IF y \in DOMAIN ptr.A THEN [ptr EXCEPT !.A[y] = @ \cup x]
        ELSE [ptr EXCEPT !.A = (y :> x) @@ @]

get_bitk(upper, k) ==
    LET index  == k \div 64
        offset == k % 64
        tmp    == WordAnd(upper, index, ShlOne(offset))
    IN  IF tmp = {} THEN 0 ELSE 1

bit_count(x) == Cardinality(x)

bit_array_getbitk(ptr, k) == get_bitk(ptr, k)

bit_array_setbit(ptr, k) ==
    LET index  == k \div 64
        offset == k % 64
    IN  OrWord(ptr, index, ShlOne(offset))

\* bit_array_insert that stores only the part of an item in its first word
InsertFirstWord(ptr, num, k) ==
    IF ptr.s = 0 THEN ptr
    ELSE LET index  == (k * ptr.s) \div 64
             offset == (k * ptr.s) % 64
         IN  IF offset + ptr.s <= 64
             THEN OrWord(ptr, index, Shl64(num, 64 - offset - ptr.s))
             ELSE OrWord(ptr, index, Shr64(num, offset + ptr.s - 64))

bit_array_insert(ptr, num, k) ==
    IF ptr.s = 0 THEN ptr
    ELSE LET index  == (k * ptr.s) \div 64
             offset == (k * ptr.s) % 64
         IN  IF offset + ptr.s <= 64
             THEN OrWord(ptr, index, Shl64(num, 64 - offset - ptr.s))
             ELSE LET diff == offset + ptr.s - 64
                  IN  OrWord(OrWord(ptr, index, Shr64(num, diff)),
                             index + 1, Shl64(num, 64 - diff))

bit_array_get(ptr, k) ==
    IF ptr.s = 0 THEN {}
    ELSE LET index  == (k * ptr.s) \div 64
             offset == (k * ptr.s) % 64
         IN  IF offset + ptr.s <= 64
             THEN LET mask0 == Sub64(ShlOne(64 - offset), {0})
                      mask  == Sub64(mask0, Sub64(ShlOne(64 - offset - ptr.s), {0}))
                      rval  == Word(ptr, index) \cap mask
                  IN  Shr64(rval, 64 - offset - ptr.s)
             ELSE LET diff      == offset + ptr.s - 64
                      mask      == Sub64(ShlOne(ptr.s - diff), {0})
                      rval      == Word(ptr, index) \cap mask
                      next_mask == Sub64(Bits64, Sub64(ShlOne(64 - diff), {0}))
                      next      == Shr64(Word(ptr, index + 1) \cap next_mask, 64 - diff)
                  IN  Shl64(rval, diff) \cup next

bit_array_create(ptr, s, size) ==
    IF s = 0 THEN [ptr EXCEPT !.s = s, !.A = NoWords, !.len = 0]
    ELSE [ptr EXCEPT !.s = s, !.A = NoWords,
                     !.len = IF s > 0 THEN (s * size + 63) \div 64 ELSE size]

-----------------------------------------------------------------------------
(* elias_fano_list *)

NullArray == [s |-> 0, A |-> NoWords, len |-> 0, curr |-> 0]

\* the structure after memset(ef, 0, sizeof(elias_fano_list))
ZeroEf ==
    [s |-> 0, size |-> 0, lower |-> NullArray, upper |-> NullArray,
     bitarraylen |-> 0, num_ones |-> 0, log2_ones_per_inventory |-> 0,
     ones_per_inventory |-> 0, ones_per_inventory_mask |-> 0,
     inventory_size |-> 0, inventory |-> << >>, spill_size |-> 0,
     exact_spill |-> << >>]

\* eflist_init with an upper array of one bit for each value up to largest
InitUnshifted(num_elements, largest) ==
    LET s            == IF num_elements = 0 THEN 0
                        ELSE FloorLog2((largest + 1) \div num_elements)
        upper_length == num_elements + largest
    IN  [ZeroEf EXCEPT
            !.size = num_elements,
            !.s = s,
            !.lower = bit_array_create(NullArray, s, num_elements),
            !.bitarraylen = upper_length,
            !.upper = bit_array_create(NullArray, -1, (upper_length + 63) \div 64),
            !.spill_size = DEFAULT_SPILL_SIZE,
            !.exact_spill = << >>]

eflist_init(num_elements, largest) ==
    LET s            == IF num_elements = 0 THEN 0
                        ELSE FloorLog2((largest + 1) \div num_elements)
        upper_length == num_elements + FromBits(Shr64(ToBits(largest), s))
    IN  [ZeroEf EXCEPT
            !.size = num_elements,
            !.s = s,
            !.lower = bit_array_create(NullArray, s, num_elements),
            !.bitarraylen = upper_length,
            !.upper = bit_array_create(NullArray, -1, (upper_length + 63) \div 64),
            !.spill_size = DEFAULT_SPILL_SIZE,
            !.exact_spill = << >>]

\* eflist_add that sets the upper bit at elem >> s, without the index
AddWithoutIndex(e, elem) ==
    IF e.lower.curr >= e.size
    THEN [rval |-> eflist_out_of_bound, ef |-> e]
    ELSE LET index == e.lower.curr
             mask  == Sub64(ShlOne(e.s), {0})
             val   == Int64(elem) \cap mask
             low   == bit_array_insert(e.lower, val, index)
             k     == FromBits(Shr64(Int64(elem), e.s))
             up    == bit_array_setbit(e.upper, k)
         IN  [rval |-> 0,
              ef   |-> [e EXCEPT !.lower = [low EXCEPT !.curr = @ + 1],
                                 !.upper = [up EXCEPT !.curr = @ + 1]]]

\* the element elem appended at position index = lower.curr
eflist_add(e, elem) ==
    IF e.lower.curr >= e.size
    THEN [rval |-> eflist_out_of_bound, ef |-> e]
    ELSE LET index == e.lower.curr
             mask  == Sub64(ShlOne(e.s), {0})
             val   == Int64(elem) \cap mask
             low   == bit_array_insert(e.lower, val, index)
             k     == FromBits(Shr64(Int64(elem), e.s)) + index
             up    == bit_array_setbit(e.upper, k)
         IN  [rval |-> 0,
              ef   |-> [e EXCEPT !.lower = [low EXCEPT !.curr = @ + 1],
                                 !.upper = [up EXCEPT !.curr = @ + 1]]]

\* e with both arrays cleared: eflist_add only ORs bits into the arrays and
\* never reads them, so what a run of adds stores is the OR of what each stores
Cleared(e) == [e EXCEPT !.lower.A = NoWords, !.upper.A = NoWords]

OrArrays(A, B) ==
    [w \in DOMAIN A \cup DOMAIN B |->
        (IF w \in DOMAIN A THEN A[w] ELSE {}) \cup (IF w \in DOMAIN B THEN B[w] ELSE {})]

\* d, the structure after some adds into cleared arrays, with e's bits ORed in
Merged(e, d) == [d EXCEPT !.lower.A = OrArrays(e.lower.A, @),
                          !.upper.A = OrArrays(e.upper.A, @)]

RECURSIVE AddRange(_, _, _, _)
\* the loop of eflist_addbatch over a[lo .. hi]: eflist_add of each element in
\* order, stopping at the first one that fails (r is the result so far)
AddRange(r, a, lo, hi) ==
    IF lo > hi \/ r.rval # 0 THEN r
    ELSE IF lo = hi THEN eflist_add(r.ef, a[lo])
    ELSE LET mid   == (lo + hi) \div 2
             left  == AddRange([r EXCEPT !.ef = Cleared(@)], a, lo, mid)
             right == IF left.rval # 0 THEN left
                      ELSE AddRange([left EXCEPT !.ef = Cleared(@)], a, mid + 1, hi)
         IN  [rval |-> right.rval,
              ef   |-> Merged(r.ef, Merged(left.ef, right.ef))]

eflist_addbatch(e, a, length) ==
    IF \E i \in 1 .. length - 1 : ~(a[i] <= a[i + 1])
    THEN [rval |-> eflist_batch_nondecreasing, ef |-> e]
    ELSE AddRange([rval |-> 0, ef |-> e], a, 1, length)

\* span >= MAX_SPAN for the uint64 span = hi - lo (a negative difference wraps)
SpanIsLong(lo, hi) == hi - lo < 0 \/ hi - lo >= MAX_SPAN

\* first scan of simple_select_build: the inventory of first positions
\* the test of simple_select_build on the spill: more ones in long blocks than
\* the spill holds
SpillTooSmall(spilled, spill_size) == spilled > 0 /\ spill_size < spilled

Scan1Step(e, st, i) ==
    IF bit_array_getbitk(e.upper, i) = 1
    THEN [d   |-> st.d + 1,
          inv |-> IF AndMask(st.d, e.ones_per_inventory_mask) = 0
                  THEN [st.inv EXCEPT ![st.d \div e.ones_per_inventory] = i]
                  ELSE st.inv]
    ELSE st

RECURSIVE Scan1(_, _, _, _)
Scan1(e, st, lo, hi) ==
    IF lo > hi THEN st
    ELSE IF lo = hi THEN Scan1Step(e, st, lo)
    ELSE LET mid  == (lo + hi) \div 2
             left == Scan1(e, st, lo, mid)
         IN  IF left.d >= 0 THEN Scan1(e, left, mid + 1, hi) ELSE left

\* second scan: the number of ones in blocks whose span is >= MAX_SPAN
Scan2Step(e, st, i) ==
    IF bit_array_getbitk(e.upper, i) = 1
    THEN IF AndMask(st.d, e.ones_per_inventory_mask) = 0
         THEN LET inventory_index == st.d \div e.ones_per_inventory
                  start == e.inventory[inventory_index]
                  next  == e.inventory[inventory_index + 1]
                  ones  == IF e.num_ones - st.d < e.ones_per_inventory
                           THEN e.num_ones - st.d ELSE e.ones_per_inventory
              IN  [d       |-> st.d + 1,
                   spilled |-> IF SpanIsLong(start, next)
                               THEN st.spilled + ones ELSE st.spilled]
         ELSE [st EXCEPT !.d = @ + 1]
    ELSE st

RECURSIVE Scan2(_, _, _, _)
Scan2(e, st, lo, hi) ==
    IF lo > hi THEN st
    ELSE IF lo = hi THEN Scan2Step(e, st, lo)
    ELSE LET mid  == (lo + hi) \div 2
             left == Scan2(e, st, lo, mid)
         IN  IF left.d >= 0 THEN Scan2(e, left, mid + 1, hi) ELSE left

\* third scan: st = [d, spilled, inventory_index, long, inv, spill]
\* ("long" is span >= MAX_SPAN for the span last computed)
Scan3Body(st, i, first) ==
    IF ~st.long
    THEN st                                         \* continue: d is not advanced
    ELSE [st EXCEPT
            !.inv = IF first THEN [@ EXCEPT ![st.inventory_index] = -st.spilled]
                             ELSE @,
            !.spill = (st.spilled :> i) @@ @,
            !.spilled = @ + 1,
            !.d = @ + 1]

Scan3Step(e, st, i) ==
    IF bit_array_getbitk(e.upper, i) = 1
    THEN LET first == AndMask(st.d, e.ones_per_inventory_mask) = 0
             idx   == st.d \div e.ones_per_inventory
             st1   == IF first
                      THEN [st EXCEPT !.inventory_index = idx,
                                      !.long = SpanIsLong(st.inv[idx], st.inv[idx + 1])]
                      ELSE st
         IN  Scan3Body(st1, i, first)
    ELSE st

RECURSIVE Scan3(_, _, _, _)
Scan3(e, st, lo, hi) ==
    IF lo > hi THEN st
    ELSE IF lo = hi THEN Scan3Step(e, st, lo)
    ELSE LET mid  == (lo + hi) \div 2
             left == Scan3(e, st, lo, mid)
         IN  IF left.d >= 0 THEN Scan3(e, left, mid + 1, hi) ELSE left

simple_select_build(e0, num_ones, spill_var_len) ==
    LET length == e0.bitarraylen
        window == IF length = 0 THEN 1
                  ELSE (num_ones * MAX_ONES_PER_INVENTORY + length - 1) \div length
        log2w  == FloorLog2(window)
        opi    == 2 ^ log2w
        isize  == (num_ones + opi - 1) \div opi
        e1     == [e0 EXCEPT !.num_ones = num_ones,
                             !.log2_ones_per_inventory = log2w,
                             !.ones_per_inventory = opi,
                             !.ones_per_inventory_mask = opi - 1,
                             !.inventory_size = isize,
                             !.inventory = [j \in 0 .. isize |-> Uninit]]
        s1     == Scan1(e1, [d |-> 0, inv |-> e1.inventory], 0, length - 1)
        e2     == [e1 EXCEPT !.inventory = [s1.inv EXCEPT ![isize] = length]]
    IN  IF ~(opi > 1) THEN [rval |-> 0, ef |-> e2]
        ELSE LET spilled == Scan2(e2, [d |-> 0, spilled |-> 0], 0, length - 1).spilled
                 small   == SpillTooSmall(spilled, e2.spill_size)
             IN  IF small /\ spill_var_len = 0
                 THEN [rval |-> eflist_spill_too_small, ef |-> e2]
                 ELSE LET e3 == IF small
                                THEN [e2 EXCEPT !.spill_size = spilled,
                                                !.exact_spill = << >>]
                                ELSE e2
                          s3 == Scan3(e3, [d |-> 0, spilled |-> 0,
                                           inventory_index |-> 0, long |-> FALSE,
                                           inv |-> e3.inventory,
                                           spill |-> e3.exact_spill],
                                      0, length - 1)
                      IN  [rval |-> 0,
                           ef   |-> [e3 EXCEPT !.inventory = s3.inv,
                                               !.exact_spill = s3.spill]]

RECURSIVE ScanBits(_, _, _, _)
\* for (k = from; k < 64; k++): the position of the subrank-th 1 of word
\* upper_index at or after bit from, or the subrank left when there is none
ScanBits(e, upper_index, k, subrank) ==
    IF k >= 64 THEN [found |-> FALSE, subrank |-> subrank]
    ELSE LET hit == WordAnd(e.upper, upper_index, ShlOne(k)) # {} /\ subrank # 0
             sub == IF hit THEN subrank - 1 ELSE subrank
         IN  IF sub = 0 THEN [found |-> TRUE, pos |-> upper_index * 64 + k]
             ELSE ScanBits(e, upper_index, k + 1, sub)

RECURSIVE SkipWords(_, _, _)
\* while (ones < subrank) { subrank -= ones; upper_index++; ... }.  subrank is
\* at least 1 here, so the loop passes every word without ones: they are
\* passed in one step, up to the next word that holds a one (or to the end of
\* the array, where the read is out of its bounds)
SkipWords(e, upper_index, subrank) ==
    LET ones  == bit_count(Word(e.upper, upper_index))
        later == {w \in DOMAIN e.upper.A : w > upper_index /\ e.upper.A[w] # {}}
        nxt   == IF later = {} THEN e.upper.len
                 ELSE CHOOSE w \in later : \A v \in later : w <= v
    IN  IF ones < subrank
        THEN SkipWords(e, IF ones = 0 THEN nxt ELSE upper_index + 1, subrank - ones)
        ELSE [upper_index |-> upper_index, subrank |-> subrank]

\* the int64 that select_rank returns, as a word
select_rank(rank, e) ==
    IF rank >= e.num_ones THEN Int64(eflist_out_of_bound)
    ELSE LET inventory_index == rank \div e.ones_per_inventory
             inventory_rank  == e.inventory[inventory_index]
             subrank         == AndMask(rank, e.ones_per_inventory_mask)
         IN  IF subrank = 0 THEN Int64(inventory_rank) \ {63}
             ELSE IF inventory_rank < 0
             THEN Int64(e.exact_spill[-inventory_rank + subrank])
             ELSE LET upper_index == inventory_rank \div 64
                      offset      == inventory_rank % 64
                      inword      == ScanBits(e, upper_index, offset + 1, subrank)
                  IN  IF inword.found THEN Int64(inword.pos)
                      ELSE LET w == SkipWords(e, upper_index + 1, inword.subrank)
                               f == ScanBits(e, w.upper_index, 0, w.subrank)
                           IN  IF f.found THEN Int64(f.pos) ELSE Int64(0)

eflist_lookup(e, index) ==
    LET lowx  == bit_array_get(e.lower, index)
        highx == select_rank(index, e)
    IN  Shl64(Sub64(highx, Int64(index)), e.s) \cup lowx

-----------------------------------------------------------------------------
(* The caller's arrays.  An increasing array is kept as its runs of        *)
(* consecutive integers, <<[first, len], ...>>, and read through Elem.     *)

RECURSIVE RunsLen(_)
RunsLen(r) == IF r = << >> THEN 0 ELSE Head(r).len + RunsLen(Tail(r))

RECURSIVE Elem(_, _)
\* element i (from 1) of the array
Elem(r, i) == IF i <= Head(r).len THEN Head(r).first + i - 1
              ELSE Elem(Tail(r), i - Head(r).len)

\* the array as a function of its index
AsArray(r) == [i \in 1 .. RunsLen(r) |-> Elem(r, i)]

\* the last element; 0 for the empty array
LastElem(r) == IF r = << >> THEN 0 ELSE Elem(r, RunsLen(r))

\* the elements as a set
ElemSet(r) == UNION {r[j].first .. r[j].first + r[j].len - 1 : j \in 1 .. Len(r)}

RECURSIVE SetToRuns(_)
\* a set of integers as an increasing array
SetToRuns(S) == IF S = {} THEN << >>
                ELSE LET m == CHOOSE x \in S : \A y \in S : x <= y
                     IN  <<[first |-> m, len |-> 1]>> \o SetToRuns(S \ {m})

\* the positions of the bits set in a bit array
OnesOf(ptr) == UNION {{64 * w + b : b \in ptr.A[w]} : w \in DOMAIN ptr.A}

\* a 64-bit word below 2^31 as an integer, -1 for every other word
Small(x) == IF x \subseteq 0 .. 30 THEN FromBits(x) ELSE -1

-----------------------------------------------------------------------------
(* Bounds of the checked instances *)

MaxN == 3          \* longest list enumerated element by element
MaxVal == 5        \* largest element of an enumerated list
MaxSlack == 2      \* the bound u ranges over last .. last + MaxSlack, and more

\* every strictly increasing list of 1 .. MaxN elements of 0 .. MaxVal
SmallLists ==
    LET Inc(q) == \A i \in 1 .. Len(q) - 1 : q[i] < q[i + 1]
        Seqs   == UNION {[1 .. n -> 0 .. MaxVal] : n \in 1 .. MaxN}
    IN  {[i \in 1 .. Len(q) |-> [first |-> q[i], len |-> 1]] : q \in {x \in Seqs : Inc(x)}}

\* lists whose lower array has items that straddle two words (s = 3, 4)
MidLists == { <<[first |-> 3, len |-> 20], [first |-> 150 + MaxVal, len |-> 3]>>,
              <<[first |-> 0, len |-> 1], [first |-> 77, len |-> 11],
                [first |-> 200 + MaxVal, len |-> 10]>> }

\* the bounds u tried for a list
Bounds(r) == (LastElem(r) .. LastElem(r) + MaxSlack)
             \cup {8 * RunsLen(r) + MaxSlack, 17 * RunsLen(r) + MaxSlack}

\* a list of BigN elements whose first ones_per_inventory = 2048 elements span
\* more than MAX_SPAN bits of the upper array (s = 0)
BigN == 61500
BigU == 2 * BigN - 2
BigLists == { <<[first |-> 1, len |-> 2048],
                [first |-> BigU - BigN + 2049, len |-> BigN - 2048]>> }

\* the indices queried in a list of n elements: all of a short list, those around
\* the first inventory block's ends of a long one
Queries(n) == IF n <= 64 THEN 0 .. n - 1
              ELSE {0, 1, 2047, 2048, 2049, n - 1}

-----------------------------------------------------------------------------
(* Pointers, the descriptor and the records of the bvgraph calls *)

\* a pointer is NULL, an uninitialised value, a malloc'ed block or a caller's buffer
NULL == <<"null", 0>>
Wild == <<"wild", 0>>
Block(k) == <<"heap", k>>
GMemory == <<"caller", 1>>
Offsets == <<"caller", 2>>

\* the pointers of an elias_fano_list after memset(.., 0, ..)
ZeroEfPtrs == [lower |-> NULL, upper |-> NULL, inventory |-> NULL, exact_spill |-> NULL,
               spill_size |-> 0, complete |-> FALSE]

\* a bvgraph after memset(g, 0, sizeof(bvgraph)); where tells how the caller got it
ZeroDesc(where) ==
    [where |-> where, memory |-> NULL, memory_size |-> 0, memory_external |-> 0,
     offsets |-> NULL, offsets_external |-> 0, use_ef |-> 0, offset_step |-> 0,
     n |-> 0, build_last |-> 0, ef |-> ZeroEfPtrs]

NoDesc == ZeroDesc("none")
NoBufs == [gmem |-> [size |-> 0, written |-> 0], offs |-> [size |-> 0, written |-> 0]]
NoGraph == [n |-> 0, fsize |-> 0, build_last |-> 0, spilled |-> 0]
NoEnv == [graph |-> NoGraph, has_offsets |-> FALSE]
NoCall == [op |-> "none", rval |-> 0, step |-> 0, ub |-> {}, freed |-> {}, crashed |-> FALSE,
           gbuf |-> 0, offsetbuf |-> 0, efbuf |-> 0, before |-> NoDesc,
           spill_var_len |-> 0]
NoLoad == [count |-> 0, rval |-> 0, step |-> 0, toolong |-> FALSE, gmemory |-> FALSE,
           gmemsize |-> 0, offsets |-> FALSE, offsetssize |-> 0, fault |-> "none",
           builds |-> << >>, made |-> {}, closed |-> FALSE, closes |-> 0]

\* no descriptor in use
LdIdle ==
    /\ g = NoDesc /\ heap = << >> /\ bufs = NoBufs /\ files = 0
    /\ env = NoEnv /\ ret = NoCall /\ last = NoLoad

\* the test driver before it has a graph
NoWalk == [pc |-> "none", gr |-> << >>, step |-> 0, offsets |-> << >>, pairs |-> << >>,
           cache |-> << >>, node |-> -1, links |-> << >>, ok |-> TRUE]
\* no one-shot call made yet
NoShot == [op |-> "none", arg |-> 0, rval |-> 0, inner |-> 0, text |-> ""]
BvIdle == bv = NoWalk /\ call = NoShot

\* no list in use
EfIdle ==
    /\ ef = ZeroEf /\ arr = << >> /\ pc = "idle" /\ ub = {}
    /\ res = [index |-> -1, value |-> {}, rval |-> 0]

-----------------------------------------------------------------------------
(* The drivers.  A list is made by eflist_init and filled by the adds; a    *)
(* bare upper array is made by bit_array_create and filled by               *)
(* bit_array_setbit.  Both are indexed by simple_select_build and queried.  *)

NoRes == [index |-> -1, value |-> {}, rval |-> 0]

EfInit(lists) ==
    /\ arr \in lists
    /\ \E u \in (IF RunsLen(arr) > 64 THEN {BigU} ELSE Bounds(arr)) :
           ef = eflist_init(RunsLen(arr), u) /\ u >= LastElem(arr)
    /\ ub \in {{}, {0}}
    /\ pc = "adding"
    /\ res = NoRes
    /\ LdIdle /\ BvIdle

\* the list of the example in the comment on eflist_init, with its largest
\* element for the bound, and the empty list
DocList == <<[first |-> 5, len |-> 1], [first |-> 10, len |-> 1],
             [first |-> 15, len |-> 1], [first |-> 20, len |-> 1]>>

DocInit ==
    /\ \E c \in {[list |-> DocList, largest |-> 20], [list |-> << >>, largest |-> 0]} :
           arr = c.list /\ ef = eflist_init(RunsLen(c.list), c.largest)
    /\ ub = {}
    /\ pc = "adding"
    /\ res = NoRes
    /\ LdIdle /\ BvIdle

\* eflist_add of the next element
Add ==
    /\ pc = "adding"
    /\ arr # << >>
    /\ RunsLen(arr) <= MaxN \/ arr = DocList
    /\ LET r == eflist_add(ef, Elem(arr, ef.lower.curr + 1))
       IN  /\ ef' = r.ef
           /\ res' = [res EXCEPT !.rval = r.rval]
           /\ pc' = IF r.ef.lower.curr = RunsLen(arr) THEN "filled" ELSE "adding"
    /\ UNCHANGED <<arr, ub>> /\ UNCHANGED <<ldvars, bv, call>>

\* eflist_addbatch of the whole array
AddBatch ==
    /\ pc = "adding"
    /\ ef.lower.curr = 0
    /\ LET r == eflist_addbatch(ef, AsArray(arr), RunsLen(arr))
       IN  ef' = r.ef /\ res' = [res EXCEPT !.rval = r.rval]
    /\ pc' = "filled"
    /\ UNCHANGED <<arr, ub>> /\ UNCHANGED <<ldvars, bv, call>>

\* the upper arrays tried bare: every non-empty set of ones in an array of
\* 1 .. MaxL bits, and arrays long enough for several inventory blocks
MaxL == 6
SmallUppers ==
    UNION {{[len |-> L, ones |-> SetToRuns(S)] : S \in (SUBSET (0 .. L - 1)) \ {{}}}
           : L \in 1 .. MaxL}

\* ones_per_inventory = 2 and 1, no block spans MAX_SPAN bits
MidUppers ==
    { [len |-> 12288, ones |-> <<[first |-> 5, len |-> 1], [first |-> 70, len |-> 1],
                                 [first |-> 4000, len |-> 2], [first |-> 12287, len |-> 1]>>],
      [len |-> 12288, ones |-> <<[first |-> 0, len |-> 3], [first |-> 63, len |-> 2]>>],
      [len |-> 20000, ones |-> <<[first |-> 64, len |-> 1], [first |-> 19999, len |-> 1]>>] }

\* ones_per_inventory = 2 and the first blocks span MAX_SPAN bits or more
BigUppers ==
    { [len |-> MAX_SPAN + 128,
       ones |-> <<[first |-> 0, len |-> 1], [first |-> MAX_SPAN + 4, len |-> 8]>>],
      [len |-> MAX_SPAN + 128,
       ones |-> <<[first |-> 1, len |-> 1], [first |-> MAX_SPAN + 4, len |-> 8]>>],
      [len |-> 2 * MAX_SPAN + 128,
       ones |-> <<[first |-> 1, len |-> 1], [first |-> MAX_SPAN + 4, len |-> 2],
                  [first |-> 2 * MAX_SPAN + 28, len |-> 14]>>] }

\* ones_per_inventory = 2; the first block is short and the second one spans
\* MAX_SPAN bits or more
LateUppers ==
    { [len |-> MAX_SPAN + 128,
       ones |-> <<[first |-> 0, len |-> 3], [first |-> MAX_SPAN + 64, len |-> 6]>>] }

SelInit(uppers) ==
    /\ \E c \in uppers :
           /\ arr = c.ones
           /\ ef = [eflist_init(0, 0) EXCEPT
                       !.bitarraylen = c.len,
                       !.upper = bit_array_create(NullArray, -1, (c.len + 63) \div 64)]
    /\ ub \in {{}, {0}}
    /\ pc = "setting"
    /\ res = NoRes
    /\ LdIdle /\ BvIdle

RECURSIVE SetFrom(_, _, _)
SetFrom(ptr, r, i) == IF i > RunsLen(r) THEN ptr
                      ELSE SetFrom(bit_array_setbit(ptr, Elem(r, i)), r, i + 1)

\* bit_array_setbit of every position of arr
SetBits ==
    /\ pc = "setting"
    /\ ef' = [ef EXCEPT !.upper = SetFrom(@, arr, 1)]
    /\ pc' = "filled"
    /\ UNCHANGED <<arr, res, ub>> /\ UNCHANGED <<ldvars, bv, call>>

\* simple_select_build with num_ones = the number of ones in the upper array
Build ==
    /\ pc = "filled"
    /\ \E spill_var_len \in {0, 1} :
           LET r == simple_select_build(ef, RunsLen(arr), spill_var_len)
           IN  ef' = r.ef /\ res' = [res EXCEPT !.rval = r.rval]
    /\ pc' = "built"
    /\ UNCHANGED <<arr, ub>> /\ UNCHANGED <<ldvars, bv, call>>

Lookup ==
    /\ pc \in {"built", "looked", "selected", "beyond"}
    /\ res.rval = 0
    /\ ef.size > 0
    /\ \E i \in Queries(RunsLen(arr)) :
           res' = [index |-> i, value |-> eflist_lookup(ef, i), rval |-> 0]
    /\ pc' = "looked"
    /\ UNCHANGED <<ef, arr, ub>> /\ UNCHANGED <<ldvars, bv, call>>

Select ==
    /\ pc \in {"built", "looked", "selected", "beyond"}
    /\ res.rval = 0
    /\ \E k \in Queries(RunsLen(arr)) :
           res' = [index |-> k, value |-> select_rank(k, ef), rval |-> 0]
    /\ pc' = "selected"
    /\ UNCHANGED <<ef, arr, ub>> /\ UNCHANGED <<ldvars, bv, call>>

\* ptr as a read past its end sees it: the words that follow the array in
\* memory hold whatever was there, junk
Beyond(ptr, words, junk) ==
    [ptr EXCEPT !.len = @ + words,
                !.A = [w \in ptr.len .. ptr.len + words - 1 |-> junk] @@ @]

\* bit_array_get(ptr, k) reads a word that is not one of the array's
ReadsOutside(ptr, k) ==
    /\ ptr.s # 0
    /\ LET index  == (k * ptr.s) \div 64
           offset == (k * ptr.s) % 64
       IN  index >= ptr.len \/ (offset + ptr.s > 64 /\ index + 1 >= ptr.len)

\* eflist_lookup of an index that is not one of the list's: n, n + 1, and
\* n + 64, whose item is past the last word of a lower array with s > 0
LookupBeyond ==
    /\ pc \in {"built", "looked", "selected", "beyond"}
    /\ res.rval = 0
    /\ ef.size = RunsLen(arr)
    /\ \E i \in {ef.size, ef.size + 1, ef.size + 64} :
       \E junk \in (IF ReadsOutside(ef.lower, i) THEN {{}, Bits64} ELSE {{}}) :
           res' = [index |-> i, rval |-> 0,
                   value |-> eflist_lookup([ef EXCEPT !.lower = Beyond(@, ef.s + 2, junk)], i)]
    /\ pc' = "beyond"
    /\ UNCHANGED <<ef, arr, ub>> /\ UNCHANGED <<ldvars, bv, call>>

\* an element that eflist_add is not meant to take after the ef.lower.curr
\* elements added: any at all when the list is full, else one less than the
\* element before, or the least one whose bit of the upper array is past the
\* bitarraylen bits that the largest element needs (a bit that is still in
\* the last word allocated)
BadElems ==
    LET index == ef.lower.curr
        past  == (ef.bitarraylen - index) * (2 ^ ef.s)
    IN  IF index >= ef.size THEN {LastElem(arr)}
        ELSE (IF index > 0 /\ Elem(arr, index) > 0 THEN {Elem(arr, index) - 1} ELSE {})
             \cup (IF ef.bitarraylen % 64 # 0 THEN {past} ELSE {})

\* the same as arrays for eflist_addbatch, and an array that decreases
BadBatches ==
    {<<elem>> : elem \in BadElems}
    \cup {<<elem + 1, elem>> : elem \in {LastElem(arr)}}

\* eflist_add of such an element
MisAdd ==
    /\ pc \in {"adding", "filled"}
    /\ 0 < ef.size /\ ef.size <= MaxN
    /\ \E elem \in BadElems :
           LET r == eflist_add(ef, elem)
           IN  ef' = r.ef /\ res' = [res EXCEPT !.rval = r.rval]
    /\ pc' = "misadded"
    /\ UNCHANGED <<arr, ub>> /\ UNCHANGED <<ldvars, bv, call>>

\* eflist_addbatch of such an array
MisAddBatch ==
    /\ pc \in {"adding", "filled"}
    /\ 0 < ef.size /\ ef.size <= MaxN
    /\ \E a \in BadBatches :
           LET r == eflist_addbatch(ef, a, Len(a))
           IN  ef' = r.ef /\ res' = [res EXCEPT !.rval = r.rval]
    /\ pc' = "misadded"
    /\ UNCHANGED <<arr, ub>> /\ UNCHANGED <<ldvars, bv, call>>

NextEF ==
    Add \/ AddBatch \/ SetBits \/ Build \/ Lookup \/ Select \/ LookupBeyond
    \/ MisAdd \/ MisAddBatch

\* lists and bare upper arrays of the enumerated sizes
SpecEF ==
    (EfInit(SmallLists \cup MidLists) \/ SelInit(SmallUppers \cup MidUppers) \/ DocInit)
    /\ [][NextEF]_vars

\* the same with the instances in which an inventory block is spilled
SpecEFBig ==
    (EfInit(SmallLists \cup BigLists) \/ SelInit(MidUppers \cup BigUppers \cup LateUppers))
    /\ [][NextEF]_vars

\* C1: every lookup of a built list returns the element that was added at
\* that index: eflist_lookup(i) = o_i for every i in [0, n)
C1_RoundTrip ==
    pc = "looked" => res.value = Int64(Elem(arr, res.index + 1))

\* C1 (witness): a lookup of an index other than 0 has returned its element
C1_Witness ==
    /\ pc = "looked" /\ res.index > 0
    /\ res.value = Int64(Elem(arr, res.index + 1))

\* C2: select_rank(k) of an indexed upper array returns a position p with
\* U[p] = 1 and exactly k + 1 ones in U[0 .. p]
C2_SelectCorrect ==
    pc = "selected" =>
        LET p == Small(res.value)
        IN  /\ p \in OnesOf(ef.upper)
            /\ Cardinality({q \in OnesOf(ef.upper) : q <= p}) = res.index + 1

\* C12: eflist_lookup(i) of a built list of n elements, for an index i >= n,
\* returns eflist_out_of_bound and reads no word outside the lower array
C12_LookupOutOfBound ==
    pc = "beyond" =>
        /\ res.value = Int64(eflist_out_of_bound)
        /\ ~ReadsOutside(ef.lower, res.index)

\* C13: an eflist_add or eflist_addbatch of an element that is smaller than
\* the one before, past the list's bound or past its capacity returns an
\* error and changes neither array nor the count of elements
C13_BadAddRejected ==
    [][pc' = "misadded" =>
          /\ res'.rval \in {eflist_out_of_bound, eflist_batch_nondecreasing}
          /\ ef'.lower = ef.lower /\ ef'.upper = ef.upper]_vars

\* the ones of inventory block k of the bare upper array whose ones are arr:
\* how many, the position of the first, and where the next block starts
BlockOnes(k) ==
    IF RunsLen(arr) - k * ef.ones_per_inventory < ef.ones_per_inventory
    THEN RunsLen(arr) - k * ef.ones_per_inventory ELSE ef.ones_per_inventory
BlockFirst(k) == Elem(arr, k * ef.ones_per_inventory + 1)
BlockNext(k) ==
    IF (k + 1) * ef.ones_per_inventory < RunsLen(arr)
    THEN Elem(arr, (k + 1) * ef.ones_per_inventory + 1) ELSE ef.bitarraylen

\* C19: after a simple_select_build that returned 0, every inventory block
\* that spans MAX_SPAN bits or more has inventory[k] = -spill_index with the
\* positions of all its ones in exact_spill from spill_index on, and every
\* other block has the position of its first one in inventory[k]
C19_LongBlocksSpilled ==
    (pc = "built" /\ res.rval = 0 /\ ef.size = 0 /\ arr # << >>) =>
        \A k \in 0 .. ef.inventory_size - 1 :
            IF BlockNext(k) - BlockFirst(k) >= MAX_SPAN
            THEN \E spill_index \in 0 .. RunsLen(arr) :
                     /\ ef.inventory[k] = -spill_index
                     /\ \A j \in 0 .. BlockOnes(k) - 1 :
                            /\ spill_index + j \in DOMAIN ef.exact_spill
                            /\ ef.exact_spill[spill_index + j]
                                   = Elem(arr, k * ef.ones_per_inventory + j + 1)
            ELSE ef.inventory[k] = BlockFirst(k)

\* the values of the lower array of a list of n elements
LowerValues == [i \in 0 .. ef.size - 1 |-> Small(bit_array_get(ef.lower, i))]

-----------------------------------------------------------------------------
(* A list made by eflist_init(n, u) for any n and u, and filled one element *)
(* at a time with a non-decreasing sequence bounded by u.  call keeps n and *)
(* u, arr the elements added.                                               *)

MaxFillN == 3      \* most elements of a list filled one by one
MaxFillU == 6      \* largest bound of such a list

\* (int)(log2(q)) of an unsigned quotient q: floor(log2(q)) for q >= 1.
\* log2(0) is -infinity and its conversion to int is undefined: INT_MIN when
\* the conversion is to 32 bits, 0 when it is to 64 bits and then truncated
IntLog2(q) == IF q = 0 THEN {-2147483647 - 1, 0} ELSE {FloorLog2(q)}

\* largest >> s as the build computes it; undefined for s < 0, where the
\* shift takes the low 6 bits of the count (0) or gives 0
ShrInt(largest, s) ==
    IF s >= 0 THEN {FromBits(Shr64(ToBits(largest), s))} ELSE {largest, 0}

\* the lists eflist_init can leave: the one of eflist_init, and where the
\* quotient (largest + 1) / num_elements is 0 one for every outcome of the
\* undefined conversion and shift
InitOutcomes(num_elements, largest) ==
    IF num_elements = 0 \/ (largest + 1) \div num_elements > 0
    THEN {eflist_init(num_elements, largest)}
    ELSE {[ZeroEf EXCEPT
              !.size = num_elements,
              !.s = w[1],
              !.lower = bit_array_create(NullArray, w[1], num_elements),
              !.bitarraylen = num_elements + w[2],
              !.upper = bit_array_create(NullArray, -1,
                                         (num_elements + w[2] + 63) \div 64),
              !.spill_size = DEFAULT_SPILL_SIZE,
              !.exact_spill = << >>]
          : w \in UNION {{<<x, y>> : y \in ShrInt(largest, x)} : x \in IntLog2(0)}}

FillInit == EfIdle /\ LdIdle /\ BvIdle

\* eflist_init(&ef, n, u)
EflistInit ==
    /\ pc = "idle"
    /\ \E n \in 0 .. MaxFillN, u \in 0 .. MaxFillU :
           /\ ef' \in InitOutcomes(n, u)
           /\ call' = [NoShot EXCEPT !.op = "eflist_init", !.arg = n, !.inner = u]
    /\ pc' = "fill"
    /\ UNCHANGED <<arr, res, ub>> /\ UNCHANGED <<ldvars, bv>>

\* eflist_add of an element that is at least the last one added and at most
\* u.  With a width below 0 the add stops at assert(ptr->s > 0) in
\* bit_array_insert; an add that returns eflist_out_of_bound ends the filling
FillAdd ==
    /\ pc = "fill"
    /\ \E elem \in LastElem(arr) .. call.inner :
           IF ef.s < 0
           THEN pc' = "aborted" /\ UNCHANGED <<ef, arr, res>>
           ELSE LET r == eflist_add(ef, elem)
                IN  /\ ef' = r.ef
                    /\ res' = [res EXCEPT !.rval = r.rval]
                    /\ arr' = IF r.rval = 0
                              THEN Append(arr, [first |-> elem, len |-> 1]) ELSE arr
                    /\ pc' = IF r.rval = 0 THEN "fill" ELSE "full"
    /\ UNCHANGED ub /\ UNCHANGED <<ldvars, bv, call>>

\* the results of simple_select_build: the one computed from window >= 1, and
\* for window = 0 (no ones in an array that is not empty) the outcomes of the
\* undefined conversion of log2(0) = -infinity to int: INT_MIN or 0, after
\* which 1 << log2_ones_per_inventory has a count whose low bits are 0
BuildOutcomes(e, num_ones, spill_var_len) ==
    IF e.bitarraylen = 0 \/ num_ones > 0
    THEN {simple_select_build(e, num_ones, spill_var_len)}
    ELSE {[rval |-> 0,
           ef   |-> [e EXCEPT !.num_ones = num_ones,
                              !.log2_ones_per_inventory = w,
                              !.ones_per_inventory = 1,
                              !.ones_per_inventory_mask = 0,
                              !.inventory_size = 0,
                              !.inventory = [j \in {0} |-> e.bitarraylen]]]
          : w \in IntLog2(0)}

\* simple_select_build(&ef, k, spill_var_len) for the k ones that the adds have
\* set; where the conversion is undefined the call may also trap
FillBuild ==
    /\ pc \in {"fill", "full"} /\ ef.s >= 0
    /\ \E spill_var_len \in {0, 1} :
           \/ \E r \in BuildOutcomes(ef, Len(arr), spill_var_len) :
                  ef' = r.ef /\ res' = [res EXCEPT !.rval = r.rval] /\ pc' = "built"
           \/ /\ ef.bitarraylen > 0 /\ Len(arr) = 0
              /\ pc' = "trapped" /\ UNCHANGED <<ef, res>>
    /\ UNCHANGED <<arr, ub>> /\ UNCHANGED <<ldvars, bv, call>>

SpecFill == FillInit /\ [][EflistInit \/ FillAdd \/ FillBuild]_vars

\* the least c with u <= n * 2^c: ceil(log2(u / n)) for u >= n >= 1
CeilLog2Ratio(u, n) == CHOOSE c \in 0 .. 20 : u <= n * 2 ^ c /\ (c > 0 => u > n * 2 ^ (c - 1))

\* C24: for n >= 1 and u >= n, eflist_init(n, u) gives a lower array of n * s
\* bits and an upper array of n + (u >> s) bits, together at most
\* n * (2 + ceil(log2(u / n))) bits
C24_SpaceBound ==
    (call.op = "eflist_init" /\ call.arg >= 1 /\ call.inner >= call.arg) =>
        /\ ef.lower.len = (call.arg * ef.s + 63) \div 64
        /\ ef.bitarraylen = call.arg + call.inner \div 2 ^ ef.s
        /\ ef.upper.len = (ef.bitarraylen + 63) \div 64
        /\ call.arg * ef.s + ef.bitarraylen
               <= call.arg * (2 + CeilLog2Ratio(call.inner, call.arg))

\* C24: a list of 2 elements bounded by 6 (s = 1, 2 + 5 bits) just initialised
C24_Witness ==
    /\ call.op = "eflist_init" /\ call.arg = 2 /\ call.inner = 6
    /\ ef.s = 1 /\ ef.bitarraylen = 5 /\ arr = << >>

\* C25: for n >= 1 and every u >= 0, the width s that eflist_init computes
\* is in 0 .. 63 and 2^s <= max(1, floor((u + 1) / n))
C25_WidthInRange ==
    (call.op = "eflist_init" /\ call.arg >= 1) =>
        /\ ef.s \in 0 .. 63
        /\ 2 ^ ef.s <= (IF (call.inner + 1) \div call.arg > 1
                        THEN (call.inner + 1) \div call.arg ELSE 1)

\* max(1, ceil(num_ones * 8192 / length)), and 1 for an empty array
WindowOf(num_ones, length) ==
    IF length = 0 \/ num_ones = 0 THEN 1
    ELSE (num_ones * MAX_ONES_PER_INVENTORY + length - 1) \div length

\* C21: simple_select_build for num_ones ones in an upper array of |U| bits,
\* also for no ones and for an empty array, ends with ones_per_inventory =
\* 2^floor(log2(max(1, ceil(num_ones * 8192 / |U|)))), a power of two in
\* 1 .. 8192 whose exponent is log2_ones_per_inventory, the mask
\* ones_per_inventory - 1, inventory_size = ceil(num_ones / ones_per_inventory)
\* and the sentinel inventory[inventory_size] = |U|
C21_InventoryParameters ==
    pc \in {"built", "trapped"} =>
        /\ pc = "built"
        /\ ef.log2_ones_per_inventory = FloorLog2(WindowOf(Len(arr), ef.bitarraylen))
        /\ ef.ones_per_inventory = 2 ^ ef.log2_ones_per_inventory
        /\ ef.ones_per_inventory \in 1 .. MAX_ONES_PER_INVENTORY
        /\ ef.ones_per_inventory_mask = ef.ones_per_inventory - 1
        /\ ef.inventory_size
               = (Len(arr) + ef.ones_per_inventory - 1) \div ef.ones_per_inventory
        /\ ef.inventory[ef.inventory_size] = ef.bitarraylen

\* the position of the bit of element i (from 1) of arr in the upper array
UpperPos(i) == Elem(arr, i) \div 2 ^ ef.s + (i - 1)

\* C27: after k adds that returned 0, of a non-decreasing sequence bounded by
\* u, into a list made by eflist_init(n, u): the upper array has exactly k
\* bits set, the bit of the i-th element (from 0) at (x_i >> s) + i, these
\* positions increase strictly and are below n + (u >> s), and both element
\* counters are k
C27_UpperBitsOfAdds ==
    call.op = "eflist_init" =>
        LET k == Len(arr)
        IN  /\ k <= call.arg
            /\ ef.lower.curr = k /\ ef.upper.curr = k
            /\ Cardinality(OnesOf(ef.upper)) = k
            /\ k > 0 =>
                   /\ OnesOf(ef.upper) = {UpperPos(i) : i \in 1 .. k}
                   /\ \A i \in 1 .. k - 1 : UpperPos(i) < UpperPos(i + 1)
                   /\ \A i \in 1 .. k :
                          UpperPos(i) < call.arg + call.inner \div 2 ^ ef.s

\* C27: three adds, the last two of the same element, into a list with s = 1
C27_Witness ==
    /\ call.op = "eflist_init" /\ call.arg = 3 /\ ef.s = 1
    /\ Len(arr) = 3 /\ arr[2].first = arr[3].first /\ arr[1].first < arr[2].first
    /\ res.rval = 0

-----------------------------------------------------------------------------
(* A bit array of items of s bits made by bit_array_create, written by      *)
(* bit_array_insert at distinct indices and read by bit_array_get.  arr     *)
(* keeps the inserts done, [index, num].                                    *)

MaxInserts == 3    \* most inserts into one bit array

\* the widths tried, and for each the indices: items at bit 0 of a word, items
\* that end at the end of a word, and items that straddle two words
BitWidths == {1, 7, 32, 63}
BitIndices(s) == IF s = 1 THEN {0, 63, 64, 65}
                 ELSE IF s = 7 THEN {0, 8, 9, 10}
                 ELSE IF s = 32 THEN {0, 1, 2, 3}
                 ELSE {0, 1, 2}

\* the values tried for an item of s bits: 0, 1, 2^(s - 1) and 2^s - 1
BitValues(s) == {{}, {0}, {s - 1}, 0 .. s - 1}

BitsInit ==
    /\ \E s \in BitWidths :
           ef = [ZeroEf EXCEPT
                    !.lower = bit_array_create(NullArray, s, MaxSet(BitIndices(s)) + 1)]
    /\ arr = << >> /\ ub \in {{}, {0}} /\ pc = "bits" /\ res = NoRes
    /\ LdIdle /\ BvIdle

\* bit_array_insert(&lower, num, k) at an index not written before
Insert ==
    /\ pc = "bits" /\ Len(arr) < MaxInserts
    /\ \E k \in BitIndices(ef.lower.s) \ {arr[i].index : i \in 1 .. Len(arr)},
          num \in BitValues(ef.lower.s) :
           /\ ef' = [ef EXCEPT !.lower = bit_array_insert(@, num, k)]
           /\ arr' = Append(arr, [index |-> k, num |-> num])
    /\ res' = NoRes
    /\ UNCHANGED <<pc, ub>> /\ UNCHANGED <<ldvars, bv, call>>

\* bit_array_get(&lower, k); it changes nothing, so one call is made between
\* two inserts
Get ==
    /\ pc = "bits" /\ res = NoRes
    /\ \E k \in BitIndices(ef.lower.s) :
           res' = [index |-> k, value |-> bit_array_get(ef.lower, k), rval |-> 0]
    /\ UNCHANGED <<ef, arr, pc, ub>> /\ UNCHANGED <<ldvars, bv, call>>

SpecBits == BitsInit /\ [][Insert \/ Get]_vars

\* the bits set in a bit array, counted from the first bit of the first word:
\* bit j is bit 63 - j % 64 of word j \div 64
StreamOnes(ptr) == UNION {{64 * w + (63 - b) : b \in ptr.A[w]} : w \in DOMAIN ptr.A}

\* the value inserted at index k, 0 when none was
Inserted(k) ==
    IF \E i \in 1 .. Len(arr) : arr[i].index = k
    THEN arr[CHOOSE i \in 1 .. Len(arr) : arr[i].index = k].num
    ELSE {}

\* C22: in a bit array of width s, fresh from bit_array_create, after inserts
\* of values below 2^s at distinct indices, bit_array_get(k) is the value
\* inserted at k, and 0 where none was; the bits set are those of the
\* inserted values, each within bits k * s .. k * s + s - 1 of its item
C22_InsertGetRoundTrip ==
    pc = "bits" =>
        /\ res.index >= 0 => res.value = Inserted(res.index)
        /\ StreamOnes(ef.lower)
               = UNION {{arr[i].index * ef.lower.s + (ef.lower.s - 1 - b) : b \in arr[i].num}
                        : i \in 1 .. Len(arr)}

\* C22: the item 9 of width 7, bits 63 .. 69, read back with all its bits set
\* after the items before and after it were written
C22_Witness ==
    /\ pc = "bits" /\ ef.lower.s = 7 /\ Len(arr) = 3
    /\ res.index = 9 /\ res.value = 0 .. 6 /\ Inserted(9) = 0 .. 6
    /\ Inserted(8) = 0 .. 6 /\ Inserted(10) = {6}

-----------------------------------------------------------------------------
(* bvgraph.c: the load / close life cycle of a descriptor.                  *)
(* The calls thread a record st = [g, heap, bufs, files, builds, ub, made,  *)
(* freed]: the descriptor, the heap, the caller's buffers, the open files,  *)
(* the results of the build_efcode runs, the undefined operations done, and *)
(* the blocks the call allocated and freed.                                 *)

bvgraph_call_out_of_memory == -1
bvgraph_call_io_error == -2
bvgraph_call_unsupported == -3
bvgraph_load_error_filename_too_long == 11
bvgraph_load_error_buffer_too_small == 12
bvgraph_property_file_error == 21
bvgraph_unsupported_version == 22
bvgraph_property_file_compression_flag_error == 23
bvgraph_vertex_out_of_range == 31
bvgraph_requires_offsets == 32
bvgraph_unsupported_coding == 33

R(rval, st) == [rval |-> rval, st |-> st]

\* malloc of a block of size elements: block Len(heap) + 1
Malloc(st, kind, size) ==
    [st EXCEPT !.heap = Append(@, [kind |-> kind, size |-> size, filled |-> 0,
                                   live |-> TRUE]),
               !.made = @ \cup {Len(st.heap) + 1}]

\* free(ptr): defined for NULL and for a live block only
free(st, ptr) ==
    IF ptr = NULL THEN st
    ELSE IF ptr[1] = "heap" /\ st.heap[ptr[2]].live
    THEN [st EXCEPT !.heap[ptr[2]].live = FALSE, !.freed = @ \cup {ptr[2]}]
    ELSE [st EXCEPT !.ub = @ \cup {IF ptr[1] = "heap" THEN "double free"
                                   ELSE IF ptr[1] = "caller"
                                   THEN "free of a caller's buffer"
                                   ELSE "free of an uninitialised pointer"}]

\* count elements written at ptr[0 .. count - 1]
Store(st, ptr, count) ==
    IF ptr = GMemory
    THEN [st EXCEPT !.bufs.gmem.written = count,
                    !.ub = IF count > st.bufs.gmem.size
                           THEN @ \cup {"write past the end of gmemory"} ELSE @]
    ELSE IF ptr = Offsets
    THEN [st EXCEPT !.bufs.offs.written = count,
                    !.ub = IF count > st.bufs.offs.size
                           THEN @ \cup {"write past the end of offsets"} ELSE @]
    ELSE IF ptr[1] = "heap"
    THEN [st EXCEPT !.heap[ptr[2]].filled = count,
                    !.ub = IF count > st.heap[ptr[2]].size
                           THEN @ \cup {"write past the end of a block"} ELSE @]
    ELSE [st EXCEPT !.ub = @ \cup {"write through a bad pointer"}]

\* what can go wrong in the calls that a load makes
PropertyFaults == {"property_file_error", "unsupported_version", "compression_flag_error"}
Faults == PropertyFaults \cup {"none", "fsize", "malloc", "fopen", "short read",
                               "bitfile_open", "bitfile_open again"}

\* parse_properties: the vertex count and bits_per_link * m of the properties
\* file, or the error of a bad file
parse_properties(st, e, fault) ==
    IF fault \in PropertyFaults
    THEN R(CASE fault = "property_file_error" -> bvgraph_property_file_error
             [] fault = "unsupported_version" -> bvgraph_unsupported_version
             [] OTHER -> bvgraph_property_file_compression_flag_error, st)
    ELSE R(0, [st EXCEPT !.g.n = e.graph.n, !.g.build_last = e.graph.build_last])

\* eflist_initial: the list emptied and its default spill allocated
eflist_initial(st, n) ==
    [Malloc(st, "spill", DEFAULT_SPILL_SIZE) EXCEPT
        !.g.ef = [ZeroEfPtrs EXCEPT !.exact_spill = Block(Len(st.heap) + 1),
                                    !.spill_size = DEFAULT_SPILL_SIZE]]

\* int s = n == 0 ? 0 : (int)(log2(u / n)) with u = build_last + 1
EfWidth(n, build_last) == IF n = 0 THEN 0 ELSE FloorLog2((build_last + 1) \div n)

\* upper_length = n + (build_last >> s)
EfUpperLength(n, build_last) == n + build_last \div (2 ^ EfWidth(n, build_last))

\* bit_array_create: a block of array_len words, none when s = 0
CreateLower(st, s, array_len) ==
    IF s = 0 THEN [st EXCEPT !.g.ef.lower = NULL]
    ELSE [Malloc(st, "lower", array_len) EXCEPT !.g.ef.lower = Block(Len(st.heap) + 1)]

CreateUpper(st, array_len) ==
    [Malloc(st, "upper", array_len) EXCEPT !.g.ef.upper = Block(Len(st.heap) + 1)]

\* the two bit_array_create calls of load_efcode_from_file / load_efcode_online
EfArrays(st) ==
    CreateUpper(CreateLower(st, EfWidth(st.g.n, st.g.build_last),
                            (EfWidth(st.g.n, st.g.build_last) * st.g.n + 63) \div 64),
                (EfUpperLength(st.g.n, st.g.build_last) + 63) \div 64)

load_efcode_from_file(st, e, fault) ==
    IF e.has_offsets
    THEN IF fault = "bitfile_open"
         THEN R(bvgraph_call_io_error, [st EXCEPT !.files = @ + 1])
         ELSE IF fault = "bitfile_open again"
         THEN R(bvgraph_call_io_error, [EfArrays(st) EXCEPT !.files = @ + 1])
         ELSE R(0, EfArrays(st))
    ELSE R(1, st)

load_efcode_online(st) == R(0, EfArrays(st))

RECURSIVE MulDiv(_, _, _)
\* quotient and remainder of a * b by c, by halving b (the product itself may
\* exceed the checker's integers)
MulDiv(a, b, c) ==
    IF b = 0 THEN [q |-> 0, r |-> 0]
    ELSE LET h == MulDiv(a, b \div 2, c)
             d == 2 * h.r + (IF b % 2 = 1 THEN a % c ELSE 0)
         IN  [q |-> 2 * h.q + (IF b % 2 = 1 THEN a \div c ELSE 0) + d \div c,
              r |-> d % c]

\* inventory_size of simple_select_build for num_ones ones in length bits
InventorySize(num_ones, length) ==
    LET w      == MulDiv(num_ones, MAX_ONES_PER_INVENTORY, length)
        window == IF length = 0 THEN 1 ELSE w.q + (IF w.r > 0 THEN 1 ELSE 0)
        opi    == 2 ^ FloorLog2(window)
    IN  (num_ones + opi - 1) \div opi

\* if (rval) { load_efcode_online(g); }
OrOnline(f) == IF f.rval # 0 THEN load_efcode_online(f.st).st ELSE f.st

\* ef->inventory = malloc(sizeof(int64_t) * (ef->inventory_size + 1))
WithInventory(st) ==
    [Malloc(st, "inventory",
            InventorySize(st.g.n, EfUpperLength(st.g.n, st.g.build_last)) + 1)
     EXCEPT !.g.ef.inventory = Block(Len(st.heap) + 1)]

\* the spill allocated anew with the default size
RespillDefault(st, spilled) ==
    [Malloc(free(st, st.g.ef.exact_spill), "spill", DEFAULT_SPILL_SIZE)
     EXCEPT !.g.ef.exact_spill = Block(Len(st.heap) + 1), !.g.ef.spill_size = spilled]

\* free(ef->exact_spill); ef->spill_size = spilled; ef->exact_spill = malloc(..)
Respill(st, spilled) ==
    [Malloc(free(st, st.g.ef.exact_spill), "spill", spilled)
     EXCEPT !.g.ef.exact_spill = Block(Len(st.heap) + 1), !.g.ef.spill_size = spilled]

\* the third scan: ef->exact_spill[spilled ++] = i for the ones of the long
\* blocks, which come first in the graphs on disk
SpillOnes(st, spilled) == Store(st, st.g.ef.exact_spill, spilled)

\* the rest of simple_select_build for a list with spilled ones in long blocks
IndexUpper(st, spilled, spill_var_len) ==
    IF SpillTooSmall(spilled, st.g.ef.spill_size)
    THEN IF spill_var_len = 0 THEN R(eflist_spill_too_small, st)
         ELSE R(0, [SpillOnes(Respill(st, spilled), spilled) EXCEPT !.g.ef.complete = TRUE])
    ELSE R(0, [SpillOnes(st, spilled) EXCEPT !.g.ef.complete = TRUE])

\* if (rval < 0) return eflist_spill_too_small; return 0
Built(r) == R(IF r.rval < 0 THEN eflist_spill_too_small ELSE 0,
              [r.st EXCEPT !.builds = Append(@, r.rval)])

\* build_efcode: the list initialised, filled from the .offsets file or else
\* from the graph, and indexed by simple_select_build
build_efcode(st, e, fault, spill_var_len) ==
    Built(IndexUpper(WithInventory(OrOnline(
              load_efcode_from_file(eflist_initial(st, st.g.n), e, fault))),
          e.graph.spilled, spill_var_len))

\* if (!rval) { build_efcode(g, 1); }
Rebuild(a, e, fault) ==
    IF a.rval = 0 THEN build_efcode(a.st, e, fault, 1).st ELSE a.st

\* g->use_ef = 1; g->offsets_external = 1; rval = build_efcode(g, 0); ...
BuildEf(st, e, fault) ==
    Rebuild(build_efcode([st EXCEPT !.g.use_ef = 1, !.g.offsets_external = 1],
                         e, fault, 0),
            e, fault)

\* the .offsets file read into the array at g->offsets
ReadOffsets(st, e, fault) ==
    IF e.has_offsets
    THEN IF fault \in {"bitfile_open", "bitfile_open again"}
         THEN R(bvgraph_call_io_error, [st EXCEPT !.files = @ + 1])
         ELSE R(0, Store(st, st.g.offsets, st.g.n))
    ELSE R(1, st)

load_offset_from_file(st, e, fault) ==
    ReadOffsets([Malloc(st, "offsets", st.g.n) EXCEPT !.g.offsets = Block(Len(st.heap) + 1)],
                e, fault)

\* g->offsets[0] = 0, then offsets[curr + 1] for every curr + 1 < n
load_offset_online(st) ==
    R(0, Store(st, st.g.offsets, IF st.g.n = 0 THEN 1 ELSE st.g.n))

\* if (rval) { load_offset_online(g); }
OrOffsetsOnline(f) == IF f.rval # 0 THEN load_offset_online(f.st).st ELSE f.st

\* the budget read as megabytes, as bvgraph_required_memory reads it
OffsetsExceedMB(n, offset_step) == n * 8 > offset_step * (2 ^ 20)

\* offset_in_mem > offset_step, with offset_in_mem = g->n * 8
OffsetsExceed(n, offset_step) == n * 8 > offset_step

\* lines 213-220: the caller's array or a new one at g->offsets
OffsetsArray(st, p) ==
    IF p.offsets
    THEN [st EXCEPT !.g.offsets = Offsets, !.g.offsets_external = 1]
    ELSE [Malloc(st, "offsets", st.g.n) EXCEPT !.g.offsets = Block(Len(st.heap) + 1),
                                               !.g.offsets_external = 0]

\* lines 249-257: the offsets loaded under a budget they fit in
DenseUnderBudget(f) == [OrOffsetsOnline(f) EXCEPT !.g.offsets_external = 0]

\* lines 212-259: the offsets of a graph loaded into memory
LoadOffsets(st, e, p, fault) ==
    IF p.offset_step = 1
    THEN OrOffsetsOnline(load_offset_from_file(OffsetsArray(st, p), e, fault))
    ELSE IF p.offset_step = 2 THEN BuildEf(st, e, fault)
    ELSE IF p.offset_step > 2
    THEN IF OffsetsExceed(st.g.n, p.offset_step) THEN BuildEf(st, e, fault)
         ELSE DenseUnderBudget(load_offset_from_file([st EXCEPT !.g.use_ef = 0], e, fault))
    ELSE st

\* lines 175-192: the caller's buffer or a new one at g->memory
GraphBuffer(st, e, p) ==
    IF p.gmemory
    THEN [st EXCEPT !.g.memory = GMemory, !.g.memory_size = p.gmemsize,
                    !.g.memory_external = 1]
    ELSE [Malloc(st, "graph", e.graph.fsize) EXCEPT
              !.g.memory = Block(Len(st.heap) + 1), !.g.memory_size = e.graph.fsize,
              !.g.memory_external = 0]

\* lines 194-210: the .graph file read into g->memory
ReadGraph(st, fsize, bytesread) ==
    IF bytesread # fsize
    THEN R(bvgraph_call_io_error,
           Store([st EXCEPT !.files = @ + 1], st.g.memory, bytesread))
    ELSE R(0, [Store(st, st.g.memory, bytesread) EXCEPT !.g.use_ef = 0])

\* lines 166-210: the .graph file read into the caller's or a new buffer
LoadMemory(st, e, p, fault) ==
    IF fault = "fsize" THEN R(bvgraph_call_io_error, st)
    ELSE IF p.gmemory /\ p.gmemsize < e.graph.fsize
    THEN R(bvgraph_load_error_buffer_too_small, st)
    ELSE IF ~p.gmemory /\ fault = "malloc"
    THEN R(bvgraph_call_out_of_memory, [st EXCEPT !.g.memory_size = e.graph.fsize])
    ELSE IF fault = "fopen" THEN R(bvgraph_call_io_error, GraphBuffer(st, e, p))
    ELSE ReadGraph(GraphBuffer(st, e, p), e.graph.fsize,
                   IF fault = "short read" /\ e.graph.fsize > 0
                   THEN e.graph.fsize - 1 ELSE e.graph.fsize)

\* lines 160-260: a graph loaded into memory
InMemoryLoad(m, e, p, fault) ==
    IF m.rval # 0 THEN m ELSE R(0, LoadOffsets(m.st, e, p, fault))

\* lines 160-277, after the properties are parsed
LoadParsed(pp, e, p, fault) ==
    IF pp.rval # 0 THEN pp
    ELSE IF p.offset_step >= 0
    THEN InMemoryLoad(LoadMemory(pp.st, e, p, fault), e, p, fault)
    ELSE IF p.offset_step = -1
    THEN R(0, [pp.st EXCEPT !.g.memory_size = 0])
    ELSE R(0, BuildEf([pp.st EXCEPT !.g.memory_size = 0], e, fault))

\* p = [offset_step, toolong, gmemory, gmemsize, offsets, offsetssize]
bvgraph_load_external(st, e, p, fault) ==
    IF p.toolong THEN R(bvgraph_load_error_filename_too_long, st)
    ELSE LoadParsed(parse_properties(
                        [st EXCEPT !.g = [ZeroDesc(st.g.where) EXCEPT
                                              !.offset_step = p.offset_step]],
                        e, fault),
                    e, p, fault)

bit_array_free(st, ptr) == free(st, ptr)

\* if (ef->spill_size > 0) { free(ef->exact_spill); }
FreeSpill(st, e) == IF e.spill_size > 0 THEN free(st, e.exact_spill) ELSE st

eflist_free(st, e) ==
    bit_array_free(bit_array_free(FreeSpill(free(st, e.inventory), e), e.lower), e.upper)

\* if (!g->memory_external) { free(g->memory); }
FreeMemory(st) == IF st.g.memory_external = 0 THEN free(st, st.g.memory) ELSE st

\* if (!g->offsets_external) { free(g->offsets); }
FreeOffsets(st) == IF st.g.offsets_external = 0 THEN free(st, st.g.offsets) ELSE st

\* memset(g, 0, sizeof(bvgraph)); if (g->use_ef) { eflist_free(&(g->ef)); }
ClearThenFreeEf(z) == IF z.g.use_ef # 0 THEN eflist_free(z, z.g.ef) ELSE z

\* bvgraph_close without its memset
CloseKeepingFields(st) ==
    R(0, ClearThenFreeEf(FreeOffsets(FreeMemory(st))))

bvgraph_close(st) ==
    R(0, ClearThenFreeEf([FreeOffsets(FreeMemory(st)) EXCEPT !.g = ZeroDesc(st.g.where)]))

eflist_size(d) ==
    LET s            == EfWidth(d.n, d.build_last)
        upper_length == EfUpperLength(d.n, d.build_last)
    IN  ((s * d.n + 63) \div 64) * 8 + ((upper_length + 63) \div 64) * 8
        + InventorySize(d.n, upper_length) * 8 + DEFAULT_SPILL_SIZE * 8

\* out = [gbuf, offsetbuf, efbuf], the caller's three variables before the call
bvgraph_required_memory(d, e, offset_step, fault, out) ==
    IF offset_step <= -1
    THEN [rval |-> 0, gbuf |-> 0, offsetbuf |-> 0,
          efbuf |-> IF offset_step < -1 THEN eflist_size(d) ELSE 0]
    ELSE IF fault = "fsize"
    THEN [rval |-> bvgraph_call_io_error, gbuf |-> out.gbuf, offsetbuf |-> out.offsetbuf,
          efbuf |-> out.efbuf]
    ELSE LET dense == offset_step = 1
                      \/ (offset_step > 2 /\ offset_step * (2 ^ 20) >= 8 * d.n)
             code  == offset_step = 2 \/ (offset_step > 2 /\ ~dense)
         IN  [rval |-> 0, gbuf |-> e.graph.fsize,
              offsetbuf |-> IF dense THEN 8 * d.n ELSE 0,
              efbuf |-> IF code THEN eflist_size(d) ELSE 0]

-----------------------------------------------------------------------------
(* The graphs on disk and the calls of a program that loads one *)

\* a graph of three million vertices, 83968 of them with arcs and records of
\* 31 bits, the others without arcs and records of 1 bit: s = 0, 2048 ones per
\* inventory block, and the first 41 blocks span MAX_SPAN bits each
HugeGraph == [n |-> 3000000, fsize |-> 689880, build_last |-> 5519040, spilled |-> 83968]

Graphs == { [n |-> 0, fsize |-> 0, build_last |-> 0, spilled |-> 0],
            [n |-> 1, fsize |-> 1, build_last |-> 5, spilled |-> 0],
            [n |-> 2, fsize |-> 3, build_last |-> 16, spilled |-> 0],
            HugeGraph }

\* the offset_step values tried: each branch of the load, and the budgets at
\* and next to 8 * n of the small graphs
StepValues == {-2, -1, 0, 1, 2, 3, 8, 16}

\* what malloc or a stack frame holds before the descriptor is first written
Garbage(where) ==
    {[ZeroDesc(where) EXCEPT !.memory = m, !.memory_external = me,
                             !.offsets = o, !.offsets_external = oe, !.use_ef = ue,
                             !.ef = [ZeroEfPtrs EXCEPT !.lower = Wild, !.upper = Wild,
                                                       !.inventory = Wild,
                                                       !.exact_spill = Wild]]
     : m \in {NULL, Wild}, o \in {NULL, Wild}, me \in {0, 1}, oe \in {0, 1},
       ue \in {0, 1}}

LdInit ==
    /\ EfIdle /\ BvIdle
    /\ g = NoDesc /\ heap = << >> /\ bufs = NoBufs /\ files = 0
    /\ env \in [graph : Graphs, has_offsets : BOOLEAN]
    /\ ret = NoCall /\ last = NoLoad

\* g = bvgraph_new()
New ==
    /\ g.where = "none"
    /\ g' \in Garbage("heap")
    /\ heap' = Append(heap, [kind |-> "bvgraph", size |-> 1, filled |-> 0, live |-> TRUE])
    /\ UNCHANGED <<bufs, files, env, ret, last>> /\ UNCHANGED <<efvars, bv, call>>

\* bvgraph g; in a stack frame
Declare ==
    /\ g.where = "none"
    /\ g' \in Garbage("stack")
    /\ UNCHANGED <<heap, bufs, files, env, ret, last>> /\ UNCHANGED <<efvars, bv, call>>

\* the state a call starts from
\* the most calls of bvgraph_close made on one descriptor
MaxCloses == 2

Start(b) == [g |-> g, heap |-> heap, bufs |-> b, files |-> files, builds |-> << >>,
             ub |-> {}, made |-> {}, freed |-> {}]

\* the caller's buffers: none, one element too small, exact, one element more
BufferSizes(need) == {[given |-> FALSE, size |-> 0]}
                     \cup {[given |-> TRUE, size |-> s] : s \in (need - 1 .. need + 1) \cap Nat}

Params(step, toolong, gm, of) ==
    [offset_step |-> step, toolong |-> toolong, gmemory |-> gm.given, gmemsize |-> gm.size,
     offsets |-> of.given, offsetssize |-> of.size]

\* the calls tried on graph gr: every offset_step with every pair of buffers
\* when nothing fails; every failure with no buffers and with exact buffers;
\* a file name that is too long
Calls(gr) ==
    LET none   == [given |-> FALSE, size |-> 0]
        gexact == [given |-> TRUE, size |-> gr.fsize]
        oexact == [given |-> TRUE, size |-> gr.n]
    IN  {[p |-> Params(step, FALSE, gm, of), fault |-> "none"] :
            step \in StepValues, gm \in BufferSizes(gr.fsize), of \in BufferSizes(gr.n)}
        \cup {[p |-> Params(step, FALSE, b[1], b[2]), fault |-> fault] :
                 step \in StepValues, fault \in Faults,
                 b \in {<<none, none>>, <<gexact, oexact>>}}
        \cup {[p |-> Params(0, TRUE, none, none), fault |-> "none"],
              [p |-> Params(1, TRUE, gexact, oexact), fault |-> "none"]}

Load ==
    /\ g.where # "none" /\ last.count = 0 /\ ~ret.crashed
    /\ \E c \in Calls(env.graph) :
          LET b == [gmem |-> [size |-> c.p.gmemsize, written |-> 0],
                    offs |-> [size |-> c.p.offsetssize, written |-> 0]]
              r == bvgraph_load_external(Start(b), env, c.p, c.fault)
          IN  /\ g' = r.st.g /\ heap' = r.st.heap /\ bufs' = r.st.bufs
              /\ files' = r.st.files
              /\ \E abort \in (IF r.st.ub # {} THEN BOOLEAN ELSE {FALSE}) :
                     ret' = [NoCall EXCEPT !.op = "load", !.rval = r.rval,
                                           !.step = c.p.offset_step,
                                           !.ub = r.st.ub, !.freed = r.st.freed,
                                           !.crashed = abort]
              /\ last' = [count |-> 1, rval |-> r.rval, step |-> c.p.offset_step,
                          toolong |-> c.p.toolong, gmemory |-> c.p.gmemory,
                          gmemsize |-> c.p.gmemsize, offsets |-> c.p.offsets,
                          offsetssize |-> c.p.offsetssize, fault |-> c.fault,
                          builds |-> r.st.builds, made |-> r.st.made, closed |-> FALSE,
                          closes |-> 0]
    /\ UNCHANGED env /\ UNCHANGED <<efvars, bv, call>>

\* called on a loaded descriptor; the call changes neither the descriptor nor
\* the files, so a call after another call starts as a call after the load
RequiredMemory ==
    /\ ret.op = "load" /\ last.rval = 0 /\ ~ret.crashed
    /\ \E step \in StepValues, fault \in {"none", "fsize"} :
          LET r == bvgraph_required_memory(g, env, step, fault, NoCall)
          IN  ret' = [NoCall EXCEPT !.op = "required_memory", !.rval = r.rval,
                                    !.step = step, !.gbuf = r.gbuf,
                                    !.offsetbuf = r.offsetbuf, !.efbuf = r.efbuf,
                                    !.before = g]
    /\ UNCHANGED <<g, heap, bufs, files, env, last>> /\ UNCHANGED <<efvars, bv, call>>

Close ==
    /\ g.where # "none" /\ last.count > 0 /\ ~ret.crashed
    /\ last.closes < MaxCloses
    /\ LET r == bvgraph_close(Start(bufs))
       IN  /\ g' = r.st.g /\ heap' = r.st.heap
           /\ \E abort \in (IF r.st.ub # {} THEN BOOLEAN ELSE {FALSE}) :
                  ret' = [NoCall EXCEPT !.op = "close", !.rval = r.rval,
                                        !.ub = r.st.ub, !.freed = r.st.freed,
                                        !.crashed = abort]
    /\ last' = [last EXCEPT !.closed = TRUE, !.closes = @ + 1]
    /\ UNCHANGED <<bufs, files, env>> /\ UNCHANGED <<efvars, bv, call>>

\* build_efcode(&g, spill_var_len) called on the graph just loaded
BuildEfcode ==
    /\ ret.op = "load" /\ last.rval = 0 /\ ~ret.crashed
    /\ \E spill_var_len \in {0, 1} :
           LET r == build_efcode(Start(bufs), env, "none", spill_var_len)
           IN  /\ g' = r.st.g /\ heap' = r.st.heap /\ files' = r.st.files
               /\ ret' = [NoCall EXCEPT !.op = "build_efcode", !.rval = r.rval,
                                         !.ub = r.st.ub, !.freed = r.st.freed,
                                         !.spill_var_len = spill_var_len]
    /\ UNCHANGED <<bufs, env, last>> /\ UNCHANGED <<efvars, bv, call>>

NextLoad == New \/ Declare \/ Load \/ RequiredMemory \/ Close \/ BuildEfcode

SpecLoad == LdInit /\ [][NextLoad]_vars

-----------------------------------------------------------------------------
(* The offsets representation of a loaded descriptor *)

RepNone(d) == d.use_ef = 0 /\ d.offsets = NULL
RepDense(d) == d.use_ef = 0 /\ d.offsets # NULL
RepEf(d) == /\ d.use_ef = 1 /\ d.offsets = NULL
            /\ d.ef.upper # NULL /\ d.ef.inventory # NULL /\ d.ef.exact_spill # NULL
OnDisk(d) == d.memory = NULL /\ d.memory_size = 0
InMemory(d) == d.memory # NULL

C5_RequiredMemoryMatchesLoad ==
    (ret.op = "required_memory" /\ ret.rval = 0 /\ ret.step = last.step) =>
        /\ RepDense(g) => ret.offsetbuf = 8 * g.n /\ ret.efbuf = 0
        /\ RepEf(g) => ret.efbuf > 0 /\ ret.offsetbuf = 0
        /\ RepNone(g) => ret.offsetbuf = 0 /\ ret.efbuf = 0
        /\ ret.before = g

\* C6: after a load that returned 0 with no caller buffers, bvgraph_close
\* leaves no block that the load allocated live, and frees none twice
C6_CloseReleasesAll ==
    (ret.op = "close" /\ last.rval = 0 /\ ~last.gmemory /\ ~last.offsets) =>
        /\ \A k \in last.made : ~heap[k].live
        /\ "double free" \notin ret.ub

\* C7: a load with offset_step = 1 and both caller buffers that returned 0
\* leaves g->memory = gmemory and g->offsets = offsets with the n offsets in
\* it, both flagged external, has allocated no block, and a following
\* bvgraph_close frees neither buffer
C7_ExternalBuffersKept ==
    /\ (ret.op = "load" /\ ret.rval = 0 /\ last.step = 1 /\ last.gmemory
            /\ last.offsets /\ last.offsetssize >= g.n) =>
           /\ g.memory = GMemory /\ g.memory_external = 1
           /\ g.offsets = Offsets /\ g.offsets_external = 1
           /\ bufs.offs.written = g.n
           /\ last.made = {}
    /\ (ret.op = "close" /\ last.rval = 0 /\ last.step = 1 /\ last.gmemory
            /\ last.offsets) =>
           "free of a caller's buffer" \notin ret.ub

\* C8: a load in which a build_efcode run failed returns a non-zero code
C8_BuildFailureReported ==
    (ret.op = "load" /\ \E i \in DOMAIN last.builds : last.builds[i] # 0) =>
        ret.rval # 0

\* C9: bvgraph_close after a load that returned an error frees only blocks that
\* the load allocated: no uninitialised pointer, no caller buffer, none twice
C9_CloseAfterFailedLoad ==
    (ret.op = "close" /\ last.rval # 0) =>
        /\ ret.ub = {}
        /\ ret.freed \subseteq last.made

\* C10: a load given gmemory smaller than the .graph file, or an offsets array
\* of fewer than n entries to store the offsets in, returns
\* bvgraph_load_error_buffer_too_small and has written into neither buffer
C10_SmallBufferRejected ==
    (/\ ret.op = "load" /\ ~last.toolong /\ last.fault = "none"
     /\ \/ last.gmemory /\ last.step >= 0 /\ last.gmemsize < env.graph.fsize
        \/ last.offsets /\ last.step = 1 /\ last.offsetssize < env.graph.n) =>
        /\ ret.rval = bvgraph_load_error_buffer_too_small
        /\ bufs.gmem.written = 0 /\ bufs.offs.written = 0

\* the elements of the block that ptr points to
BlockSize(ptr) == IF ptr # NULL /\ ptr[1] = "heap" THEN heap[ptr[2]].size ELSE 0

\* the bytes of the four arrays of the descriptor's Elias-Fano list
EfBytes ==
    8 * (BlockSize(g.ef.lower) + BlockSize(g.ef.upper) + BlockSize(g.ef.inventory)
         + BlockSize(g.ef.exact_spill))

\* C15: after a load that built the Elias-Fano list, the efbuf that
\* bvgraph_required_memory reports for the same offset_step is the number of
\* bytes of the arrays the build allocated: lower, upper, inventory and spill
C15_EfBufferIsAllocation ==
    (ret.op = "required_memory" /\ ret.rval = 0 /\ ret.step = last.step /\ RepEf(g)) =>
        ret.efbuf = EfBytes

C18_CloseEmpties ==
    (ret.op = "close" /\ ~ret.crashed) =>
        /\ g.memory = NULL /\ g.offsets = NULL
        /\ g.memory_external = 0 /\ g.offsets_external = 0
        /\ g.use_ef = 0 /\ g.n = 0
        /\ last.closes >= 2 => ret.rval = 0 /\ ret.freed = {} /\ ret.ub = {}

\* C18: a second close of a graph whose load had allocated its memory and
\* offsets, which the first close freed
C18_Witness ==
    /\ ret.op = "close" /\ ~ret.crashed /\ last.closes = 2
    /\ last.rval = 0 /\ last.step = 1 /\ ~last.gmemory /\ ~last.offsets
    /\ \E j, k \in last.made :
           /\ heap[j].kind = "graph" /\ ~heap[j].live
           /\ heap[k].kind = "offsets" /\ ~heap[k].live
    /\ ret.freed = {} /\ g.memory = NULL

\* C26: in a load that builds the Elias-Fano index, build_efcode runs a second
\* time, with the variable-length spill, exactly when its first run failed with
\* eflist_spill_too_small; and a load that returned 0 after building the index
\* leaves it complete
C26_RebuildAfterFailure ==
    (ret.op = "load" /\ last.builds # << >>) =>
        /\ Len(last.builds) = 2 <=> last.builds[1] = eflist_spill_too_small
        /\ ret.rval = 0 => g.ef.complete

\* C28: when bvgraph_load_external returns, with 0 or with an error code, every
\* file that the load opened has been closed
C28_FilesClosed ==
    ret.op = "load" => files = 0

\* C29: a load writes the dense offsets only at offsets[0 .. n - 1], in the
\* caller's array and in the arrays it allocates, whether it reads them from
\* the .offsets file or computes them from the graph
C29_OffsetsWritesInRange ==
    ret.op = "load" =>
        /\ bufs.offs.written <= g.n
        /\ \A k \in last.made : heap[k].kind = "offsets" => heap[k].filled <= g.n

-----------------------------------------------------------------------------
(* The BV graph file.  A file is its vertices' records in vertex order; a   *)
(* record is the integers its fields decode to, [d, ref, blocks, ivs, res]: *)
(* the out-degree, the reference, the block lengths, the intervals' left    *)
(* extremes and lengths, and the residuals, every field gamma coded.  Runs  *)
(* of equal records are kept as one entry [rec, count, v, p, bits]: count   *)
(* records rec of bits bits each, the first one for vertex v at bit p.      *)

NoRec == [d |-> 0, ref |-> 0, blocks |-> << >>, ivs |-> << >>, res |-> << >>]

\* unsigned k -> (k >> 1) ^ -(k & 1): 0, -1, 1, -2, 2, ...
ZigZag(k) == IF k % 2 = 0 THEN k \div 2 ELSE -((k + 1) \div 2)

\* the bits of the gamma code of v: q zeros, a one and q bits for
\* v = (1 << q) + b - 1
GammaLen(v) == 2 * FloorLog2(v + 1) + 1

RECURSIVE SumGamma(_)
SumGamma(q) == IF q = << >> THEN 0 ELSE GammaLen(Head(q)) + SumGamma(Tail(q))

\* the bits of a record in a file with parameters p; the intervals are
\* written left extreme, length, left extreme, ...
RecordBits(p, rec) ==
    LET IvCodes == [i \in 1 .. 2 * Len(rec.ivs) |->
                       IF i % 2 = 1 THEN rec.ivs[(i + 1) \div 2].left
                       ELSE rec.ivs[i \div 2].len]
    IN
    GammaLen(rec.d)
    + (IF rec.d = 0 THEN 0
       ELSE (IF p.window_size > 0
             THEN GammaLen(rec.ref)
                  + (IF rec.ref > 0 THEN GammaLen(Len(rec.blocks)) + SumGamma(rec.blocks)
                     ELSE 0)
             ELSE 0)
            + (IF p.min_interval_length > 0
               THEN GammaLen(Len(rec.ivs)) + SumGamma(IvCodes)
               ELSE 0)
            + SumGamma(rec.res))

\* the run that holds vertex x
RunOf(gr, x) == CHOOSE k \in 1 .. Len(gr.runs) :
                    gr.runs[k].v <= x /\ x < gr.runs[k].v + gr.runs[k].count

\* the record of vertex x
RecOf(gr, x) == gr.runs[RunOf(gr, x)].rec

\* the bit position at which the record of vertex x starts (the end of the
\* file for x = n): what bitfile_tell gives after the records before it
Tell(gr, x) ==
    IF x >= gr.n THEN gr.bits
    ELSE gr.runs[RunOf(gr, x)].p + (x - gr.runs[RunOf(gr, x)].v) * gr.runs[RunOf(gr, x)].bits

\* the vertex whose record starts at bit pos, -1 when none does
RecAt(gr, pos) ==
    LET at == {k \in 1 .. Len(gr.runs) :
                  /\ pos >= gr.runs[k].p
                  /\ pos < gr.runs[k].p + gr.runs[k].count * gr.runs[k].bits
                  /\ (pos - gr.runs[k].p) % gr.runs[k].bits = 0}
        run == gr.runs[CHOOSE k \in at : TRUE]
    IN  IF at = {} THEN -1 ELSE run.v + (pos - run.p) \div run.bits

-----------------------------------------------------------------------------
(* The successor decoder *)

\* the result of a decode that failed
Corrupt == [ok |-> FALSE, links |-> << >>]

RECURSIVE Sorted(_)
\* the elements of a set in increasing order
Sorted(S) == IF S = {} THEN << >>
             ELSE <<CHOOSE a \in S : \A c \in S : a <= c>>
                  \o Sorted(S \ {CHOOSE a \in S : \A c \in S : a <= c})

RECURSIVE BlockSum(_, _)
\* the lengths of the blocks j, j + 1, ... (j from 1) together: the first
\* block's length is as decoded, the others' are decoded + 1
BlockSum(blocks, j) == IF j > Len(blocks) THEN 0
                       ELSE blocks[j] + (IF j = 1 THEN 0 ELSE 1) + BlockSum(blocks, j + 1)

RECURSIVE Copied(_, _, _)
\* the part of the referenced list P that blocks j, j + 1, ... copy: the
\* blocks alternate, skip b_0, copy b_1, skip b_2, ..., and what is left after
\* the last block is copied when their number is even
Copied(P, blocks, j) ==
    IF j > Len(blocks) THEN (IF Len(blocks) % 2 = 0 THEN P ELSE << >>)
    ELSE LET len == blocks[j] + (IF j = 1 THEN 0 ELSE 1)
         IN  (IF j % 2 = 0 THEN SubSeq(P, 1, len) ELSE << >>)
             \o Copied(SubSeq(P, len + 1, Len(P)), blocks, j + 1)

RECURSIVE Intervals(_, _, _, _, _)
\* intervals j, j + 1, ... expanded, prev being the end of the one before:
\* the first left extreme is x + 1 + zigzag, a later one prev + decoded + 1
Intervals(p, x, ivs, j, prev) ==
    IF j > Len(ivs) THEN << >>
    ELSE LET left == IF j = 1 THEN x + 1 + ZigZag(ivs[1].left) ELSE prev + ivs[j].left + 1
             len  == ivs[j].len + p.min_interval_length
         IN  [i \in 1 .. len |-> left + i - 1] \o Intervals(p, x, ivs, j + 1, left + len)

RECURSIVE Residuals(_, _, _, _)
\* residuals j, j + 1, ..., prev being the one before: the first is
\* x + zigzag, a later one prev + decoded + 1
Residuals(x, codes, j, prev) ==
    IF j > Len(codes) THEN << >>
    ELSE LET r == IF j = 1 THEN x + ZigZag(codes[1]) ELSE prev + codes[j] + 1
         IN  <<r>> \o Residuals(x, codes, j + 1, r)

\* the merge of the three sublists into the list of d successors; a duplicate,
\* or a record that does not hold d - |copied| - |intervals| residuals, is a
\* corrupt stream
Merge(gr, d, all) ==
    LET S == {all[i] : i \in DOMAIN all}
    IN  IF Len(all) = d /\ Cardinality(S) = d /\ S \subseteq 0 .. gr.n - 1
        THEN [ok |-> TRUE, links |-> Sorted(S)]
        ELSE Corrupt

\* the successors of vertex x read from record rec, P being the list of the
\* vertex x - rec.ref that the record refers to
Decode(gr, x, rec, P) ==
    IF rec.d = 0 THEN [ok |-> TRUE, links |-> << >>]
    ELSE IF rec.ref > 0 /\ BlockSum(rec.blocks, 1) > Len(P) THEN Corrupt
    ELSE Merge(gr, rec.d,
               (IF rec.ref > 0 THEN Copied(P, rec.blocks, 1) ELSE << >>)
               \o Intervals(gr, x, rec.ivs, 1, 0)
               \o Residuals(x, rec.res, 1, 0))

-----------------------------------------------------------------------------
(* The iterators.  Both keep the successor lists they decoded last, newest  *)
(* first, as records [node, links]; a record refers to one of them.         *)

\* the list of vertex y in the window: the set that holds it, or no list
Cached(cache, y) == {cache[i].links : i \in {k \in DOMAIN cache : cache[k].node = y}}

\* the window after the list of x went in: the last window_size lists
CachePut(gr, cache, x, links) ==
    LET Other(c) == c.node # x
        all      == <<[node |-> x, links |-> links]>> \o SelectSeq(cache, Other)
    IN  SubSeq(all, 1, IF Len(all) > gr.window_size THEN gr.window_size ELSE Len(all))

\* bvgraph_iterator_next to vertex x: its record is decoded at the cursor,
\* the list it refers to being one of the window; st = [win, pairs, ok], the
\* window, the arcs stored in ALL_PAIR so far and whether every read succeeded
IteratorNext(gr, st, x) ==
    LET rec == RecOf(gr, x)
        P   == Cached(st.win, x - rec.ref)
        r   == IF rec.d > 0 /\ rec.ref > 0
               THEN IF P # {} THEN Decode(gr, x, rec, CHOOSE q \in P : TRUE) ELSE Corrupt
               ELSE Decode(gr, x, rec, << >>)
    IN  [win   |-> CachePut(gr, st.win, x, r.links),
         pairs |-> st.pairs \o [i \in 1 .. Len(r.links) |-> [from |-> x, to |-> r.links[i]]],
         ok    |-> st.ok /\ r.ok]

RECURSIVE Walk(_, _, _, _)
\* for (; bvgraph_iterator_valid(&git); bvgraph_iterator_next(&git)) over the
\* vertices lo .. hi; a read that fails leaves the iterator in no state to go
\* on from
Walk(gr, st, lo, hi) ==
    IF lo > hi THEN st
    ELSE IF lo = hi THEN IteratorNext(gr, st, lo)
    ELSE LET left == Walk(gr, st, lo, (lo + hi) \div 2)
         IN  IF left.ok THEN Walk(gr, left, (lo + hi) \div 2 + 1, hi) ELSE left

\* the dense offsets: offsets[0] = 0 and offsets[curr + 1] = bitfile_tell
OffsetsOnline(gr) == [i \in 1 .. gr.n |-> Tell(gr, i - 1)]

\* the Elias-Fano list of the offsets: the list emptied with its default
\* spill, the arrays made for n elements below build_last + 1,
\* eflist_add(ef, 0) and eflist_add of every bitfile_tell
EfCodeOnline(gr) ==
    LET s  == EfWidth(gr.n, gr.build_last)
        e0 == [ZeroEf EXCEPT
                  !.size = gr.n,
                  !.spill_size = DEFAULT_SPILL_SIZE,
                  !.s = s,
                  !.lower = bit_array_create(NullArray, s, gr.n),
                  !.bitarraylen = EfUpperLength(gr.n, gr.build_last),
                  !.upper = bit_array_create(NullArray, -1,
                                (EfUpperLength(gr.n, gr.build_last) + 63) \div 64)]
    IN  AddRange([rval |-> 0, ef |-> e0], OffsetsOnline(gr), 1, gr.n).ef

\* build_efcode: the list filled and its upper array indexed
BuildEfCode(gr, spill_var_len) ==
    LET r == simple_select_build(EfCodeOnline(gr), gr.n, spill_var_len)
    IN  [rval |-> IF r.rval < 0 THEN eflist_spill_too_small ELSE 0, ef |-> r.ef]

RECURSIVE Successors(_, _, _, _)
\* the successors of x by random access: the cursor is set to the offset of
\* x (offsets[x] of the dense array, else eflist_lookup(x)) and the record
\* there decoded; the list it refers to is taken from the window or decoded
\* the same way, through at most max_ref_count records.  A cursor that is at
\* no record of the file fails the read.
Successors(b, e, x, depth) ==
    LET offset == IF b.step = 1 THEN b.offsets[x + 1] ELSE Small(eflist_lookup(e, x))
        y      == RecAt(b.gr, offset)
        rec    == RecOf(b.gr, y)
        P      == IF rec.d > 0 /\ rec.ref > 0
                  THEN IF x - rec.ref >= 0 THEN Successors(b, e, x - rec.ref, depth + 1)
                       ELSE Corrupt
                  ELSE [ok |-> TRUE, links |-> << >>]
    IN  IF Cached(b.cache, x) # {}
        THEN [ok |-> TRUE, links |-> CHOOSE q \in Cached(b.cache, x) : TRUE]
        ELSE IF depth > b.gr.max_ref_count \/ y < 0 THEN Corrupt
        ELSE IF P.ok THEN Decode(b.gr, x, rec, P.links) ELSE Corrupt

\* bvgraph_random_successors(&ri, x, &links, &d)
bvgraph_random_successors(b, e, x) ==
    IF x < 0 \/ x >= b.gr.n THEN Corrupt ELSE Successors(b, e, x, 0)

-----------------------------------------------------------------------------
(* The graph files of the checked instances: every file of up to MaxNodes   *)
(* vertices that an encoder may write, and a file in which the offsets of   *)
(* two inventory blocks span MAX_SPAN bits of the Elias-Fano upper array.   *)

MaxNodes == 2      \* most vertices of an enumerated graph

\* the parameters of the enumerated files; the first are those of set_defaults
SmallParams ==
    { [window_size |-> 7, min_interval_length |-> 3, max_ref_count |-> 3],
      [window_size |-> 2, min_interval_length |-> 2, max_ref_count |-> 3],
      [window_size |-> 0, min_interval_length |-> 0, max_ref_count |-> 3] }

\* the code that ZigZag takes to v
UnZigZag(v) == IF v >= 0 THEN 2 * v ELSE -2 * v - 1

\* the codes of the increasing list q as the residuals of vertex x
ResidualCodes(x, q) ==
    [j \in 1 .. Len(q) |-> IF j = 1 THEN UnZigZag(q[1] - x) ELSE q[j] - q[j - 1] - 1]

\* the block sequences over a referenced list of len elements
BlockChoices(len) ==
    {b \in UNION {[1 .. c -> 0 .. len] : c \in 0 .. len + 1} : BlockSum(b, 1) <= len}

\* no interval, or one interval of elements of S, as interval codes of vertex x
IvChoices(p, x, S) ==
    { << >> } \cup
    (IF p.min_interval_length = 0 THEN {}
     ELSE {<<[left |-> UnZigZag(w[1] - (x + 1)),
              len  |-> w[2] - w[1] + 1 - p.min_interval_length]>> :
              w \in {v \in S \X S : /\ v[2] - v[1] + 1 >= p.min_interval_length
                                     /\ v[1] .. v[2] \subseteq S}})

Range(q) == {q[i] : i \in DOMAIN q}

\* what vertex x copies from the list of x - ref through the blocks b
CopiedSet(lists, x, ref, b) ==
    IF ref = 0 THEN {} ELSE Range(Copied(lists[x - ref + 1], b, 1))

\* the records that encode the successors S of vertex x, lists being the
\* successor lists of the vertices before x
RecChoices(p, x, S, lists) ==
    IF S = {} THEN {NoRec}
    ELSE UNION {
           UNION {
             { [d      |-> Cardinality(S),
                ref    |-> ref,
                blocks |-> b,
                ivs    |-> iv,
                res    |-> ResidualCodes(x,
                              Sorted((S \ CopiedSet(lists, x, ref, b))
                                     \ Range(Intervals(p, x, iv, 1, 0))))] :
               iv \in IvChoices(p, x, S \ CopiedSet(lists, x, ref, b)) }
             : b \in IF ref = 0 THEN { << >> }
                     ELSE {c \in BlockChoices(Len(lists[x - ref + 1])) :
                              CopiedSet(lists, x, ref, c) \subseteq S} }
           : ref \in 0 .. (IF x < p.window_size THEN x ELSE p.window_size) }

RECURSIVE Encodings(_, _, _)
\* the files of n vertices that extend f = [recs, lists], the records and the
\* lists of its first vertices
Encodings(p, n, f) ==
    IF Len(f.recs) = n THEN {f.recs}
    ELSE UNION { UNION { Encodings(p, n, [recs  |-> Append(f.recs, rec),
                                           lists |-> Append(f.lists, Sorted(S))]) :
                          rec \in RecChoices(p, Len(f.recs), S, f.lists) }
                 : S \in SUBSET (0 .. n - 1) }

RECURSIVE RunsFrom(_, _, _, _)
\* one run for each record of recs from the k-th on, the k-th at bit pos
RunsFrom(par, recs, k, pos) ==
    IF k > Len(recs) THEN << >>
    ELSE <<[rec |-> recs[k], count |-> 1, v |-> k - 1, p |-> pos,
            bits |-> RecordBits(par, recs[k])]>>
         \o RunsFrom(par, recs, k + 1, pos + RecordBits(par, recs[k]))

RECURSIVE RunBits(_)
RunBits(runs) == IF runs = << >> THEN 0
                 ELSE Head(runs).count * Head(runs).bits + RunBits(Tail(runs))

RECURSIVE RunArcs(_)
RunArcs(runs) == IF runs = << >> THEN 0
                 ELSE Head(runs).count * Head(runs).rec.d + RunArcs(Tail(runs))

\* the graph of a file with parameters p: its properties give n, and
\* bits_per_link * m, the length of the file in bits, as build_last
Graph(p, n, runs) ==
    [window_size |-> p.window_size, min_interval_length |-> p.min_interval_length,
     max_ref_count |-> p.max_ref_count, n |-> n, runs |-> runs,
     bits |-> RunBits(runs),
     build_last |-> IF RunArcs(runs) = 0 THEN 0 ELSE RunBits(runs)]

\* every file of 1 .. most vertices
SmallGraphs(most) ==
    UNION { UNION { {Graph(p, n, RunsFrom(p, recs, 1, 0)) :
                        recs \in Encodings(p, n, [recs |-> << >>, lists |-> << >>])}
                    : n \in 1 .. most }
            : p \in SmallParams }

\* a vertex with the successors x + 8192 and x + 24576 in a record of 63 bits
Hub == [d |-> 2, ref |-> 0, blocks |-> << >>, ivs |-> << >>, res |-> <<16384, 16383>>]

HubCount == 4096   \* the vertices that are hubs, two inventory blocks of 2048
BigNodes == 85000  \* the vertices of the long graph

\* HubCount hubs and then vertices without successors: the offsets index has
\* s = 1 and ones_per_inventory = 2048, and each of its first two blocks spans
\* 66560 bits of the upper array
BigGraphs ==
    { Graph([window_size |-> 7, min_interval_length |-> 3, max_ref_count |-> 3], BigNodes,
            <<[rec |-> Hub, count |-> HubCount, v |-> 0, p |-> 0,
               bits |-> RecordBits([window_size |-> 7, min_interval_length |-> 3], Hub)],
              [rec |-> NoRec, count |-> BigNodes - HubCount, v |-> HubCount,
               p |-> HubCount * RecordBits([window_size |-> 7, min_interval_length |-> 3], Hub),
               bits |-> 1]>>) }

\* the vertices queried: all of a short graph, the first ones of the first two
\* inventory blocks and the last vertex of a long one
Nodes(n) == IF n <= 64 THEN 0 .. n - 1
            ELSE {0, 1, 2048, 2049, n - 1}

-----------------------------------------------------------------------------
(* The test driver: the graph is loaded with its offsets, load_all walks it *)
(* with the sequential iterator into ALL_PAIR, and the tests ask a random   *)
(* iterator for the successors of vertices in any order.                    *)

\* a graph file on disk and the offset_step it is loaded with: 1 for the
\* dense offsets, 2 for the Elias-Fano list (whose width s is log2 of
\* (build_last + 1) / n, defined when that quotient is not 0)
GrInit(graphs, steps) ==
    /\ \E gr \in graphs, step \in steps :
           /\ step = 2 => gr.n <= gr.build_last + 1
           /\ bv = [NoWalk EXCEPT !.pc = "start", !.gr = gr, !.step = step]
           /\ ub \in (IF step = 2 THEN {{}, {0}} ELSE {{}})
    /\ ef = ZeroEf /\ arr = << >> /\ pc = "idle" /\ res = NoRes
    /\ LdIdle /\ call = NoShot

\* bvgraph_load(&g, name, strlen(name), offset_step)
BvLoad ==
    /\ bv.pc = "start"
    /\ bv' = [bv EXCEPT !.pc = "loaded",
                        !.offsets = IF bv.step = 1 THEN OffsetsOnline(bv.gr) ELSE << >>]
    \* rval = build_efcode(g, 0); if (!rval) build_efcode(g, 1);
    /\ LET first == BuildEfCode(bv.gr, 0)
       IN  ef' = IF bv.step # 2 THEN ef
                 ELSE IF first.rval = 0 THEN BuildEfCode(bv.gr, 1).ef
                 ELSE first.ef
    /\ UNCHANGED <<arr, pc, res, ub, ldvars, call>>

\* load_all(name): every arc of the sequential walk stored in ALL_PAIR
LoadAll ==
    /\ bv.pc = "loaded"
    /\ LET w == Walk(bv.gr, [win |-> << >>, pairs |-> << >>, ok |-> TRUE], 0, bv.gr.n - 1)
       IN  bv' = [bv EXCEPT !.pc = "walked", !.pairs = w.pairs, !.ok = w.ok]
    /\ UNCHANGED <<efvars, ldvars, call>>

\* bvgraph_random_access_iterator(&g, &ri): an iterator with an empty window
RandomAccessIterator ==
    /\ bv.pc \in {"walked", "freed"}
    /\ bv.ok
    /\ bv' = [bv EXCEPT !.pc = "ready", !.cache = << >>, !.node = -1, !.links = << >>]
    /\ UNCHANGED <<efvars, ldvars, call>>

\* bvgraph_random_successors(&ri, node, &links, &d) for any vertex
RandomSuccessors ==
    /\ bv.pc \in {"ready", "queried"}
    /\ \E node \in Nodes(bv.gr.n) :
           LET r == bvgraph_random_successors(bv, ef, node)
           IN  bv' = [bv EXCEPT !.pc = "queried", !.node = node, !.links = r.links,
                                !.ok = r.ok,
                                !.cache = IF r.ok THEN CachePut(bv.gr, @, node, r.links)
                                          ELSE @]
    /\ UNCHANGED <<efvars, ldvars, call>>

\* bvgraph_random_free(&ri)
RandomFree ==
    /\ bv.pc \in {"ready", "queried"}
    /\ bv' = [bv EXCEPT !.pc = "freed", !.cache = << >>, !.node = -1, !.links = << >>,
                        !.ok = TRUE]
    /\ UNCHANGED <<efvars, ldvars, call>>

NextGraph == BvLoad \/ LoadAll \/ RandomAccessIterator \/ RandomSuccessors \/ RandomFree

\* the enumerated graphs with either kind of offsets, and the long graph with
\* the Elias-Fano list
SpecGraph ==
    (GrInit(SmallGraphs(MaxNodes), {1, 2}) \/ GrInit(BigGraphs, {2})) /\ [][NextGraph]_vars

\* bvgraph_random_access_iterator on a graph loaded with offsets, dense or
\* Elias-Fano: the code it returns
bvgraph_random_access_iterator(b) ==
    IF b.step \in {1, 2} THEN 0 ELSE bvgraph_requires_offsets

\* the code bvgraph_random_successors returns with the list
RandomCode(b, e, x) ==
    IF x < 0 \/ x >= b.gr.n THEN bvgraph_vertex_out_of_range
    ELSE IF bvgraph_random_successors(b, e, x).ok THEN 0
    ELSE bvgraph_call_io_error

\* the code bvgraph_random_outdegree returns: it reads the degree field only
bvgraph_random_outdegree(b, e, x) ==
    IF x < 0 \/ x >= b.gr.n THEN bvgraph_vertex_out_of_range ELSE 0

\* rval = bvgraph_random_access_iterator(g, &ri);
\* if (rval == 0) { rval = bvgraph_random_outdegree(&ri, x, d); } return rval
bvgraph_outdegree(b, e, x) ==
    LET rval == bvgraph_random_access_iterator(b)
    IN  [rval  |-> IF rval = 0 THEN bvgraph_random_outdegree(b, e, x) ELSE rval,
         inner |-> IF rval = 0 THEN bvgraph_random_outdegree(b, e, x) ELSE 0]

\* if (rval == 0) { bvgraph_random_successors(&ri, x, start, length); return (0); }
\* else { return (rval); }
bvgraph_successors(b, e, x) ==
    LET rval == bvgraph_random_access_iterator(b)
    IN  [rval  |-> IF rval = 0 THEN 0 ELSE rval,
         inner |-> IF rval = 0 THEN RandomCode(b, e, x) ELSE 0]

\* the vertex ids asked of a graph of n vertices: its own, and -1, n, n + 1
Ids(n) == Nodes(n) \cup {-1, n, n + 1}

\* bvgraph_outdegree(&g, x, &d) on the loaded graph
Outdegree ==
    /\ bv.pc = "loaded"
    /\ \E x \in Ids(bv.gr.n) :
           LET r == bvgraph_outdegree(bv, ef, x)
           IN  call' = [NoShot EXCEPT !.op = "outdegree", !.arg = x, !.rval = r.rval,
                                      !.inner = r.inner]
    /\ UNCHANGED <<efvars, ldvars, bv>>

\* bvgraph_successors(&g, x, &start, &length) on the loaded graph
OneShotSuccessors ==
    /\ bv.pc = "loaded"
    /\ \E x \in Ids(bv.gr.n) :
           LET r == bvgraph_successors(bv, ef, x)
           IN  call' = [NoShot EXCEPT !.op = "successors", !.arg = x, !.rval = r.rval,
                                      !.inner = r.inner]
    /\ UNCHANGED <<efvars, ldvars, bv>>

\* the enumerated graphs loaded and asked through the one-shot accessors
SpecShot ==
    GrInit(SmallGraphs(MaxNodes), {1, 2}) /\ [][BvLoad \/ Outdegree \/ OneShotSuccessors]_vars

\* C11: bvgraph_successors and bvgraph_outdegree of a vertex id x < 0 or
\* x >= n return bvgraph_vertex_out_of_range, and each returns the code of its
\* random iterator call whenever that code is not 0
C11_OneShotReportsFailure ==
    call.op \in {"successors", "outdegree"} =>
        /\ (call.arg < 0 \/ call.arg >= bv.gr.n) => call.rval = bvgraph_vertex_out_of_range
        /\ call.inner # 0 => call.rval = call.inner

\* C3: the successor list that bvgraph_random_successors returns for a vertex
\* is, in length and element by element, the list of the arcs that the
\* sequential walk stored for that vertex, whatever was queried before
C3_RandomEqualsSequential ==
    bv.pc = "queried" =>
        /\ bv.ok
        /\ LET Mine(a) == a.from = bv.node
               arcs    == SelectSeq(bv.pairs, Mine)
           IN  bv.links = [i \in 1 .. Len(arcs) |-> arcs[i].to]

-----------------------------------------------------------------------------
\* The error codes and their messages

\* every error code the two libraries define, by name
bvgraph_codes ==
    [call_out_of_memory |-> bvgraph_call_out_of_memory,
     call_io_error |-> bvgraph_call_io_error,
     call_unsupported |-> bvgraph_call_unsupported,
     load_error_filename_too_long |-> bvgraph_load_error_filename_too_long,
     load_error_buffer_too_small |-> bvgraph_load_error_buffer_too_small,
     property_file_error |-> bvgraph_property_file_error,
     unsupported_version |-> bvgraph_unsupported_version,
     property_file_compression_flag_error |-> bvgraph_property_file_compression_flag_error,
     vertex_out_of_range |-> bvgraph_vertex_out_of_range,
     requires_offsets |-> bvgraph_requires_offsets,
     unsupported_coding |-> bvgraph_unsupported_coding]

eflist_codes ==
    [out_of_bound |-> eflist_out_of_bound,
     spill_too_small |-> eflist_spill_too_small,
     batch_nondecreasing |-> eflist_batch_nondecreasing]

\* bvgraph_error_string: the first test of the chain that the code passes
bvgraph_error_string(code) ==
    IF code = bvgraph_call_out_of_memory
    THEN "malloc error --- probably out of memory"
    ELSE IF code = bvgraph_call_io_error
    THEN "io error --- probably file not found"
    ELSE IF code = bvgraph_call_unsupported
    THEN "the call tried to perform an unsupported operation"
    ELSE IF code = bvgraph_load_error_filename_too_long
    THEN "filename too long to store"
    ELSE IF code = bvgraph_load_error_buffer_too_small
    THEN "one of the provided buffers was too small"
    ELSE IF code = bvgraph_property_file_error
    THEN "the property file is not a valid property file format"
    ELSE IF code = bvgraph_property_file_compression_flag_error
    THEN "the property file contained an unknown compression flag"
    ELSE IF code = bvgraph_call_io_error
    THEN "the file version is not supported"
    ELSE IF code = bvgraph_vertex_out_of_range
    THEN "vertex is out of range"
    ELSE IF code = bvgraph_requires_offsets
    THEN "offsets are required"
    ELSE IF code = bvgraph_unsupported_coding
    THEN "coding unsupported"
    ELSE IF code = 0
    THEN "the call succeeded"
    ELSE "unknown error"

\* the integers a caller asks the message of: -CodeSpan .. CodeSpan
CodeSpan == 60

CodesInit == EfIdle /\ res = NoRes /\ LdIdle /\ BvIdle

\* a call of bvgraph_error_string(code)
ErrorString ==
    /\ \E code \in -CodeSpan .. CodeSpan :
           call' = [NoShot EXCEPT !.op = "error_string", !.arg = code,
                                  !.text = bvgraph_error_string(code)]
    /\ UNCHANGED <<efvars, ldvars, bv>>

SpecCodes == CodesInit /\ [][ErrorString]_vars

Defined(code) == \E k \in DOMAIN bvgraph_codes : bvgraph_codes[k] = code

\* the error kinds, of either library, that have the value code
KindsOf(code) ==
    {<<"bvgraph", k>> : k \in {j \in DOMAIN bvgraph_codes : bvgraph_codes[j] = code}}
    \cup {<<"eflist", k>> : k \in {j \in DOMAIN eflist_codes : eflist_codes[j] = code}}

\* C16: the eleven bvgraph codes and the three Elias-Fano codes are fourteen
\* different integers: whatever integer a caller holds and asks about, it is
\* the code of at most one error kind
C16_CodesDistinct ==
    call.op = "error_string" => Cardinality(KindsOf(call.arg)) <= 1

\* C17: a defined code gets a message of its own (never "unknown error",
\* never "the call succeeded", never the message of another defined code),
\* 0 gets "the call succeeded", and every other integer "unknown error"
C17_MessagePerCode ==
    call.op = "error_string" =>
        /\ call.arg = 0 => call.text = "the call succeeded"
        /\ ~Defined(call.arg) /\ call.arg # 0 => call.text = "unknown error"
        /\ Defined(call.arg) =>
               /\ call.text \notin {"unknown error", "the call succeeded"}
               /\ \A other \in -CodeSpan .. CodeSpan :
                      Defined(other) /\ other # call.arg =>
                          bvgraph_error_string(other) # call.text

-----------------------------------------------------------------------------
(* The test driver's arc table: load_all stores the arcs of the sequential  *)
(* walk in ALL_PAIR, sorted by (from, to), and exist_pair searches it.      *)
(* call keeps the locals of the search, one action per loop iteration.      *)

MaxPairNode == 2   \* the vertices of the arcs are 0 .. MaxPairNode
MaxPairs == 3      \* most arcs in ALL_PAIR

RECURSIVE SortPairs(_)
\* a set of arcs as the array sorted by (from, to)
SortPairs(S) ==
    IF S = {} THEN << >>
    ELSE LET p == CHOOSE x \in S : \A y \in S :
                      x.from < y.from \/ (x.from = y.from /\ x.to <= y.to)
         IN  <<p>> \o SortPairs(S \ {p})

\* the arrays tried: every set of at most MaxPairs arcs
PairArrays ==
    {SortPairs(S) : S \in {T \in SUBSET [from : 0 .. MaxPairNode, to : 0 .. MaxPairNode] :
                              Cardinality(T) <= MaxPairs}}

\* what the ints next to the array may hold
JunkPairs == {[from |-> 0, to |-> 0], [from |-> MaxPairNode, to |-> MaxPairNode],
              [from |-> MaxPairNode + 1, to |-> 0]}

PairsInit ==
    /\ EfIdle /\ LdIdle /\ call = NoShot
    /\ bv \in {[NoWalk EXCEPT !.pc = "walked", !.pairs = p] : p \in PairArrays}

\* ALL_PAIR[index]; outside 0 .. PAIR_SIZE - 1 the read is undefined
PairAt(c, index) ==
    IF index \in 0 .. Len(bv.pairs) - 1 THEN bv.pairs[index + 1] ELSE c.junk

\* c after a read of ALL_PAIR[index]: as it is where the read is inside the
\* array; where it is outside, stopped by the fault, or (next to the array
\* only) going on with what the read gave
AfterRead(c, index, on) ==
    IF index \in 0 .. Len(bv.pairs) - 1 THEN {on}
    ELSE {[c EXCEPT !.pc = "crashed", !.index = index, !.outside = TRUE]}
         \cup (IF index \in {-1, Len(bv.pairs)} THEN {[on EXCEPT !.outside = TRUE]} ELSE {})

\* exist_pair(from, to) called: int index = 0; int min = 0; int max = PAIR_SIZE
ExistPair ==
    /\ bv.pc = "walked" /\ call = NoShot
    /\ \E from \in 0 .. MaxPairNode, to \in 0 .. MaxPairNode, junk \in JunkPairs :
           call' = [op |-> "exist_pair", from |-> from, to |-> to, index |-> 0,
                    min |-> 0, max |-> Len(bv.pairs), rval |-> 0, pc |-> "outer",
                    junk |-> junk, outside |-> FALSE]
    /\ UNCHANGED <<efvars, ldvars, bv>>

\* one iteration of while (min <= max), up to the inner loop; return 0 after it
SearchStep ==
    /\ call.op = "exist_pair" /\ call.pc = "outer"
    /\ IF call.min > call.max
       THEN call' = [call EXCEPT !.pc = "done", !.rval = 0]
       ELSE LET index == (call.min + call.max) \div 2
                p     == PairAt(call, index)
                c     == [call EXCEPT !.index = index]
            IN  call' \in AfterRead(call, index,
                              IF p.from < call.from THEN [c EXCEPT !.min = index + 1]
                              ELSE IF p.from > call.from THEN [c EXCEPT !.max = index - 1]
                              ELSE IF p.to = call.to
                              THEN [c EXCEPT !.pc = "done", !.rval = 1]
                              ELSE [c EXCEPT !.pc = "inner"])
    /\ UNCHANGED <<efvars, ldvars, bv>>

\* one iteration of while (ALL_PAIR[index].from == from): the index moved
\* towards to and ALL_PAIR[index].to compared; the loop left when from differs
ScanStep ==
    /\ call.op = "exist_pair" /\ call.pc = "inner"
    /\ IF PairAt(call, call.index).from # call.from
       THEN call' = [call EXCEPT !.pc = "outer"]
       ELSE LET index == IF PairAt(call, call.index).to > call.to
                         THEN call.index - 1 ELSE call.index + 1
                c     == [call EXCEPT !.index = index]
            IN  call' \in AfterRead(call, index,
                              IF PairAt(call, index).to = call.to
                              THEN [c EXCEPT !.pc = "done", !.rval = 1]
                              ELSE c)
    /\ UNCHANGED <<efvars, ldvars, bv>>

SpecPairs == PairsInit /\ [][ExistPair \/ SearchStep \/ ScanStep]_vars

\* the search with every iteration that can be made eventually made
SpecPairsFair == SpecPairs /\ WF_vars(SearchStep) /\ WF_vars(ScanStep)

\* C30: a call of exist_pair(from, to) on an array sorted by (from, to) that
\* has returned has not faulted and has returned 1 exactly when the arc
\* (from, to) is in ALL_PAIR[0 .. PAIR_SIZE - 1]
C30_ExistPairDecides ==
    (call.op = "exist_pair" /\ call.pc \in {"done", "crashed"}) =>
        /\ call.pc = "done"
        /\ call.rval = 1 <=> \E i \in 1 .. Len(bv.pairs) :
                                 bv.pairs[i] = [from |-> call.from, to |-> call.to]

\* C30 (termination): every call of exist_pair returns
C30_ExistPairTerminates ==
    (call.op = "exist_pair") ~> (call.op = "exist_pair" /\ call.pc = "done")

-----------------------------------------------------------------------------
(* The offsets read from the .offsets file: the file holds n gamma-coded    *)
(* deltas, the first the offset of vertex 0 and each other one the length   *)
(* of the record before it.  It is kept as runs of equal deltas.            *)

\* the deltas of the .offsets file of graph gr, <<[delta, count], ...>>
OffsetsFile(gr) ==
    <<[delta |-> 0, count |-> 1]>>
    \o [j \in 1 .. Len(gr.runs) |->
           [delta |-> gr.runs[j].bits,
            count |-> IF j = Len(gr.runs) THEN gr.runs[j].count - 1
                      ELSE gr.runs[j].count]]

RECURSIVE ReadOffsetSum(_, _)
\* off after k iterations of off = read_offset(g, &bf) + off
ReadOffsetSum(file, k) ==
    IF k = 0 \/ file = << >> THEN 0
    ELSE LET here == IF k < Head(file).count THEN k ELSE Head(file).count
         IN  here * Head(file).delta + ReadOffsetSum(Tail(file), k - here)

\* load_offset_from_file: g->offsets[i] = off for i = 0 .. n - 1
OffsetsFromFile(gr) == [i \in 1 .. gr.n |-> ReadOffsetSum(OffsetsFile(gr), i)]

\* load_efcode_from_file: the arrays made for n elements below build_last + 1
\* and eflist_add(ef, off) for i = 0 .. n - 1
EfCodeFromFile(gr) ==
    LET s  == EfWidth(gr.n, gr.build_last)
        e0 == [ZeroEf EXCEPT
                  !.size = gr.n,
                  !.spill_size = DEFAULT_SPILL_SIZE,
                  !.s = s,
                  !.lower = bit_array_create(NullArray, s, gr.n),
                  !.bitarraylen = EfUpperLength(gr.n, gr.build_last),
                  !.upper = bit_array_create(NullArray, -1,
                                (EfUpperLength(gr.n, gr.build_last) + 63) \div 64)]
    IN  AddRange([rval |-> 0, ef |-> e0], OffsetsFromFile(gr), 1, gr.n).ef

\* build_efcode of a graph that has its .offsets file, from the list e that
\* load_efcode_from_file has filled
BuildFromFile(e, num_ones, spill_var_len) ==
    LET r == simple_select_build(e, num_ones, spill_var_len)
    IN  [rval |-> IF r.rval < 0 THEN eflist_spill_too_small ELSE 0, ef |-> r.ef]

\* the graph loaded twice from the same files: with offset_step = 1 into the
\* dense offsets, and with offset_step = 2 into the Elias-Fano list (both
\* build_efcode runs of that load fill the same list from the file)
LoadBoth ==
    /\ bv.pc = "start"
    /\ bv' = [bv EXCEPT !.pc = "loaded", !.offsets = OffsetsFromFile(bv.gr)]
    /\ LET e     == EfCodeFromFile(bv.gr)
           first == BuildFromFile(e, bv.gr.n, 0)
       IN  ef' = IF first.rval = 0 THEN BuildFromFile(e, bv.gr.n, 1).ef ELSE first.ef
    /\ UNCHANGED <<arr, pc, res, ub, ldvars, call>>

\* eflist_lookup(&g.ef, x) for a vertex x
OffsetLookup ==
    /\ bv.pc = "loaded"
    /\ \E x \in Nodes(bv.gr.n) :
           res' = [index |-> x, value |-> eflist_lookup(ef, x), rval |-> 0]
    /\ UNCHANGED <<ef, arr, pc, ub, ldvars, bv, call>>

\* the enumerated graphs and the long graph, each with its .offsets file
SpecOffsets ==
    /\ GrInit(SmallGraphs(MaxNodes), {2}) \/ (GrInit(BigGraphs, {2}) /\ ub = {})
    /\ [][LoadBoth \/ OffsetLookup]_vars

\* C23: for a graph and its .offsets file, eflist_lookup(x) on the Elias-Fano
\* list that load_efcode_from_file builds is offsets[x] of the dense array that
\* load_offset_from_file builds, the sum of the first x + 1 deltas, for every
\* vertex x; and the build sets no bit of the upper array at or beyond its
\* allocated length
C23_EfRefinesDense ==
    bv.pc = "loaded" =>
        /\ res.index >= 0 => res.value = Int64(bv.offsets[res.index + 1])
        /\ \A w \in DOMAIN ef.upper.A : \A b \in ef.upper.A[w] : 64 * w + b < ef.bitarraylen

=============================================================================
